---- MODULE Spec2Model ----
(***************************************************************************)
(* Model of the Modbus mapped-device coordinator (src/coordinator.py) and  *)
(* of the link driver it uses (src/modbus_client.py).                      *)
(*                                                                         *)
(* The coordinator runs on one asyncio event loop: a coroutine runs        *)
(* without interruption from one suspension point to the next.  The        *)
(* suspension points are the executor jobs (mapping load, connect, close,  *)
(* read, write) and a wait for the contended lock.  An action of this      *)
(* module is one such uninterrupted piece of a coroutine.  An executor job *)
(* runs on a worker thread between the step that submits it and the step   *)
(* in which the coroutine takes its result; while it runs it is a member *)
(* of inflight.                                                            *)
(***************************************************************************)
EXTENDS Integers, Sequences, FiniteSets, TLC

(***************************************************************************)
(* Program constants                                                       *)
(***************************************************************************)
MAX_REGS_PER_READ == 60
MAX_BITS_PER_READ == 200

WriteAttemptsMut == 2 + 1
\* for _ in range(2)
WriteAttempts == 2

(***************************************************************************)
(* Mapping documents: a document is what load_yaml returns, reduced to the *)
(* fields the coordinator reads.  A section (read / write) that is absent  *)
(* has present = FALSE; an absent bit / scale / name / press_value has     *)
(* has_bit / has_scale / has_name / has_press_value FALSE; an address     *)
(* that int() does not take (a string that is no number, a list) has     *)
(* int_address FALSE.                                                     *)
(***************************************************************************)
NoSection ==
    [present |-> FALSE, type |-> "", address |-> 0, data_type |-> "",
     word_order |-> "", has_scale |-> FALSE, scale |-> 0,
     has_bit |-> FALSE, bit |-> 0, int_address |-> TRUE]

Reg(type, address, data_type) ==
    [present |-> TRUE, type |-> type, address |-> address,
     data_type |-> data_type, word_order |-> "AB",
     has_scale |-> FALSE, scale |-> 0, has_bit |-> FALSE, bit |-> 0,
     int_address |-> TRUE]

BitReg(type, address, bit) ==
    [Reg(type, address, "uint16") EXCEPT !.has_bit = TRUE, !.bit = bit]

Scaled(sect, scale) == [sect EXCEPT !.has_scale = TRUE, !.scale = scale]

\* One item of the entities list of a document that is a mapping, without
\* a name and without a press_value.
Entry(platform, key, read, write) ==
    [is_dict |-> TRUE, platform |-> platform, key |-> key,
     has_name |-> FALSE, name |-> "", read |-> read, write |-> write,
     has_press_value |-> FALSE, press_value |-> 0]

Named(e, name) == [e EXCEPT !.has_name = TRUE, !.name = name]

PressValue(e, v) == [e EXCEPT !.has_press_value = TRUE, !.press_value = v]

\* An item of the entities list that is not a mapping (a string, a number).
NotADict == [Entry("", "", NoSection, NoSection) EXCEPT !.is_dict = FALSE]

\* A document whose root and device are mappings and whose entities are a
\* list.
Document(entries) ==
    [root_dict |-> TRUE, device_dict |-> TRUE, entities_list |-> TRUE,
     entries |-> entries]

\* The dataclass MappedEntity: press_value is None (has_press_value FALSE)
\* unless the constructor is given one.
MappedEntity(platform, key, name, read, write, has_press_value, press_value) ==
    [platform |-> platform, key |-> key, name |-> name,
     read |-> read, write |-> write,
     has_press_value |-> has_press_value, press_value |-> press_value]

\* What a load returns or raises.
Loaded(ents) == [ok |-> TRUE, error |-> "", entities |-> ents]
LoadRaised(msg) == [ok |-> FALSE, error |-> msg, entities |-> << >>]

EntityNameMut(e) == e.name
\* e.get("name", e.get("key"))
EntityName(e) == IF e.has_name THEN e.name ELSE e.key

\* The loop of _parse_mapping_data over entities_raw: an item that is not
\* a mapping is passed over.
RECURSIVE ParseEntities(_)
ParseEntities(entries) ==
    IF Len(entries) = 0 THEN << >>
    ELSE LET e == Head(entries)
         IN  IF ~e.is_dict THEN ParseEntities(Tail(entries))
             ELSE << MappedEntity(e.platform, e.key, EntityName(e),
                                  e.read, e.write,
                                  e.has_press_value, e.press_value) >>
                  \o ParseEntities(Tail(entries))

\* _parse_mapping_data: the first of its three checks that fails raises.
ParseMappingData(doc) ==
    IF ~doc.root_dict THEN LoadRaised("root must be a mapping/dict")
    ELSE IF ~doc.device_dict THEN LoadRaised("device must be a mapping/dict")
    ELSE IF ~doc.entities_list THEN LoadRaised("entities must be a list")
    ELSE Loaded(ParseEntities(doc.entries))

\* load_mapping_sync on a mappings directory that holds the document or
\* does not.
LoadMappingSync(found, doc) ==
    IF ~found THEN LoadRaised("Mapping-Datei nicht gefunden")
    ELSE ParseMappingData(doc)

\* The document the concurrency specifications run on: two switches that
\* are bits of the same holding register (the second is write-only), a
\* read-only sensor on an input register, and a switch whose write section
\* asks for a coil write.
DocSwitches ==
    << Entry("switch", "flagA", BitReg("holding", 1, 0), BitReg("holding", 1, 0)),
       Entry("switch", "flagB", NoSection, BitReg("holding", 1, 1)),
       Entry("sensor", "temp", Reg("input", 0, "int16"), NoSection),
       Entry("switch", "valve", NoSection, Reg("coil", 0, "uint16")) >>

\* The document the poll-cycle specification runs on: three ranges over
\* three register kinds, 16- and 32-bit types, a scaled value, a bit flag,
\* a write-only button, a sensor of a register kind that does not exist
\* and a sensor whose address is no number.
DocPlant ==
    << Entry("sensor", "temp", Reg("holding", 0, "int16"), NoSection),
       Entry("binary_sensor", "alarm", BitReg("holding", 1, 3), NoSection),
       Entry("sensor", "energy", Scaled(Reg("holding", 3, "uint32"), 10), NoSection),
       Entry("binary_sensor", "door", Reg("discrete", 2, "uint16"), NoSection),
       Entry("button", "reset", NoSection, Reg("holding", 6, "uint16")),
       Entry("sensor", "valve", Reg("register", 5, "uint16"), NoSection),
       Entry("sensor", "flagB", [Reg("holding", 2, "uint16") EXCEPT !.int_address = FALSE],
             NoSection) >>

AllKeys == {"flagA", "flagB", "temp", "valve", "alarm", "energy", "door", "reset"}

(***************************************************************************)
(* Snapshot values.  A Python value of the snapshot is a record: None,     *)
(* a bool or a number; Absent marks a key the dict does not hold.          *)
(***************************************************************************)
Absent == [t |-> "absent", v |-> 0]
Null == [t |-> "null", v |-> 0]
Bool(b) == [t |-> "bool", v |-> IF b THEN 1 ELSE 0]
Num(n) == [t |-> "num", v |-> n]

\* The empty dict {}.
EmptySnapshot == [k \in AllKeys |-> Absent]

(***************************************************************************)
(* Register codec                                                          *)
(***************************************************************************)
Pow2(n) == 2 ^ n

\* (x >> b) & 1
BitOf(x, b) == (x \div Pow2(b)) % 2

\* int(r) & 0xFFFF
Low16(r) == r % 65536

\* The first lines of _decode_16_32: the registers masked to 16 bits,
\* and swapped when the word order is BA and there are two of them.
OrderedRegs(regs0, word_order) ==
    LET masked == [i \in 1..Len(regs0) |-> Low16(regs0[i])]
    IN  IF word_order = "BA" /\ Len(masked) = 2
        THEN << masked[2], masked[1] >> ELSE masked

Decode32Mut(dtype, regs) == [hi |-> regs[1], lo |-> regs[2]]
\* The 32-bit value _decode_16_32 returns, as the words of hi * 2^16 + lo.
\* The registers are masked, so (regs[0] << 16) | regs[1] is below 2^32
\* and its mask changes nothing; the sign extension of int32 subtracts
\* 2^32, that is 2^16 from the high word.  float32 yields the 32-bit
\* pattern its IEEE-754 value is read from.
Decode32(dtype, regs) ==
    [hi |-> IF dtype = "int32" /\ regs[1] >= 32768 THEN regs[1] - 65536 ELSE regs[1],
     lo |-> regs[2]]

Decode1632Mut(dtype, regs0, word_order) == Low16(regs0[1])
\* _decode_16_32.
Decode1632(dtype, regs0, word_order) ==
    LET regs == OrderedRegs(regs0, word_order)
    IN  CASE dtype = "uint16" -> regs[1]
          [] dtype = "int16" -> IF regs[1] >= 32768 THEN regs[1] - 65536 ELSE regs[1]
          [] dtype \in {"uint32", "int32", "float32"} ->
                Decode32(dtype, regs).hi * 65536 + Decode32(dtype, regs).lo
          [] OTHER -> regs[1]

\* Whether _decode_16_32 raises (IndexError) on this slice.
DecodeRaises(dtype, regs) ==
    \/ Len(regs) = 0
    \/ dtype \in {"uint32", "int32", "float32"} /\ Len(regs) < 2

\* regs[off:off + width]
Slice(regs, off, width) ==
    LET hi == IF off + width < Len(regs) THEN off + width ELSE Len(regs)
    IN  IF off >= hi THEN << >> ELSE [i \in 1..(hi - off) |-> regs[off + i]]

DecodeRegEntityMut(p, slice) ==
    IF Len(slice) = 0 THEN Null
    ELSE IF p.has_bit
    THEN Bool(BitOf(OrderedRegs(slice, p.word_order)[1], p.bit) = 1)
    ELSE Num(Decode1632(p.dtype, slice, p.word_order))
\* The value stored under the entity's key from its slice of registers:
\* lines 389-397 on the batch path, 421-430 on the individual path.  None
\* when the decode raises.
DecodeRegEntity(p, slice) ==
    IF p.has_bit
    THEN IF Len(slice) = 0 THEN Null ELSE Bool(BitOf(Low16(slice[1]), p.bit) = 1)
    ELSE IF DecodeRaises(p.dtype, slice) THEN Null
         ELSE LET val == Decode1632(p.dtype, slice, p.word_order)
              IN  Num(IF p.has_scale THEN val * p.scale ELSE val)

\* bool(bits[off])
DecodeBitEntity(bits, off) ==
    IF off + 1 > Len(bits) THEN Null ELSE Bool(bits[off + 1] = 1)

(***************************************************************************)
(* Read planner                                                            *)
(***************************************************************************)
IsReadableMut(ent) == ent.read.present

\* Whether _iter_reg_entities keeps the entity: a read section of a
\* supported register kind whose address int() takes.
IsReadable(ent) ==
    /\ ent.read.present
    /\ ent.read.type \in {"holding", "input", "coil", "discrete"}
    /\ ent.read.int_address

\* The normalized read spec of one entity.
ReadSpecOf(ent) ==
    [key |-> ent.key, reg_type |-> ent.read.type, addr |-> ent.read.address,
     dtype |-> ent.read.data_type, word_order |-> ent.read.word_order,
     has_scale |-> ent.read.has_scale, scale |-> ent.read.scale,
     has_bit |-> ent.read.has_bit, bit |-> ent.read.bit,
     width |-> IF ent.read.data_type \in {"uint32", "int32", "float32"} THEN 2 ELSE 1]

RECURSIVE FilterSeq(_, _)
\* [x for x in s if x is selected], on the indices of s kept in keep.
FilterSeq(s, keep) ==
    IF Len(s) = 0 THEN << >>
    ELSE LET rest == FilterSeq(Tail(s), [i \in 1..(Len(s) - 1) |-> keep[i + 1]])
         IN  IF keep[1] THEN << Head(s) >> \o rest ELSE rest

\* _iter_reg_entities: the read specs in document order.
IterRegEntities(ents) ==
    LET kept == FilterSeq(ents, [i \in 1..Len(ents) |-> IsReadable(ents[i])])
    IN  [i \in 1..Len(kept) |-> ReadSpecOf(kept[i])]

InsertByStartMut(sorted, x) ==
    LET n == Cardinality({i \in 1..Len(sorted) : sorted[i].s < x.s})
    IN  SubSeq(sorted, 1, n) \o << x >> \o SubSeq(sorted, n + 1, Len(sorted))

RECURSIVE InsertByStart(_, _)
\* Insert x after every element whose start is <= x.s: the order a stable
\* sort on the start gives.
InsertByStart(sorted, x) ==
    IF Len(sorted) = 0 THEN << x >>
    ELSE IF Head(sorted).s <= x.s
         THEN << Head(sorted) >> \o InsertByStart(Tail(sorted), x)
         ELSE << x >> \o sorted

RECURSIVE SortByStart(_)
SortByStartMut(items) == items
\* sorted(items, key=lambda x: x[0])
SortByStart(items) ==
    IF Len(items) = 0 THEN << >>
    ELSE InsertByStart(SortByStart(SubSeq(items, 1, Len(items) - 1)), items[Len(items)])

Max(a, b) == IF a >= b THEN a ELSE b

CanMergeSpanMut(cur, item, max_span) == item.s <= cur.e + 1
CanMergeGapMut(cur, item, max_span) == Max(cur.e, item.e) - cur.s + 1 <= max_span
\* The merge test of _group_ranges (line 327).
CanMerge(cur, item, max_span) ==
    /\ item.s <= cur.e + 1
    /\ Max(cur.e, item.e) - cur.s + 1 <= max_span

RECURSIVE ScanRanges(_, _, _, _)
\* The loop of _group_ranges over the sorted items after the first.
ScanRanges(rest, cur, groups, max_span) ==
    IF Len(rest) = 0 THEN Append(groups, cur)
    ELSE LET item == Head(rest)
         IN  IF CanMerge(cur, item, max_span)
             THEN ScanRanges(Tail(rest),
                             [s |-> cur.s, e |-> Max(cur.e, item.e),
                              ps |-> Append(cur.ps, item.p)],
                             groups, max_span)
             ELSE ScanRanges(Tail(rest),
                             [s |-> item.s, e |-> item.e, ps |-> << item.p >>],
                             Append(groups, cur), max_span)

\* _group_ranges: items are [s, e, p] (start, inclusive end, payload); the
\* result is a sequence of [s, e, ps].
GroupRanges(items, max_span) ==
    IF Len(items) = 0 THEN << >>
    ELSE LET sorted == SortByStart(items)
         IN  ScanRanges(Tail(sorted),
                        [s |-> sorted[1].s, e |-> sorted[1].e, ps |-> << sorted[1].p >>],
                        << >>, max_span)

IsBitKind(reg_type) == reg_type \in {"coil", "discrete"}

\* The items of one register kind (lines 349-355 and 442-447): a bit kind
\* is one address wide whatever the data type.
ItemsOf(specs, reg_type) ==
    LET mine == FilterSeq(specs, [i \in 1..Len(specs) |-> specs[i].reg_type = reg_type])
    IN  [i \in 1..Len(mine) |->
            [s |-> mine[i].addr,
             e |-> IF IsBitKind(reg_type) THEN mine[i].addr
                   ELSE mine[i].addr + mine[i].width - 1,
             p |-> mine[i]]]

\* The ranges of one register kind, each tagged with the kind.
RangesOf(specs, reg_type) ==
    LET gs == GroupRanges(ItemsOf(specs, reg_type),
                          IF IsBitKind(reg_type) THEN MAX_BITS_PER_READ
                          ELSE MAX_REGS_PER_READ)
    IN  [i \in 1..Len(gs) |->
            [reg_type |-> reg_type, s |-> gs[i].s, e |-> gs[i].e, ps |-> gs[i].ps]]

\* The ranges _read_all walks, in the order it walks them: holding, input,
\* coil, discrete.
PlanFor(ents) ==
    LET specs == IterRegEntities(ents)
    IN  RangesOf(specs, "holding") \o RangesOf(specs, "input")
        \o RangesOf(specs, "coil") \o RangesOf(specs, "discrete")

EntitiesSwitches == ParseEntities(DocSwitches)
EntitiesPlant == ParseEntities(DocPlant)
PlanSwitches == PlanFor(EntitiesSwitches)
PlanPlant == PlanFor(EntitiesPlant)

\* PlanFor, with the plans of the two documents computed once.
ReadPlan(ents) ==
    IF ents = EntitiesSwitches THEN PlanSwitches
    ELSE IF ents = EntitiesPlant THEN PlanPlant
    ELSE PlanFor(ents)

(***************************************************************************)
(* State                                                                   *)
(***************************************************************************)
\* The highest register / bit address of the modelled device.
MaxAddr == 6

Addrs == 0..MaxAddr

\* The callers of refresh(): the poll timer, and the refresh task a write
\* has requested.
Refreshers == {"poll", "req"}
Writers == {"w1", "w2"}
Closers == {"closer"}
Tasks == Refreshers \cup Writers \cup Closers
NoTask == "-"

VARIABLES
    document,             \* the entities of the mapping file on disk
    mapping_loaded,       \* self._mapping_loaded
    entities,             \* self.entities
    connected,            \* self._connected
    data,                 \* self.data: [set |-> FALSE] is None
    last_update_success,  \* the coordinator's availability flag
    lock,                 \* self._lock: its holder and the queue of its waiters
    clientCreated,        \* client._client is not None
    established,          \* the last connect returned success and no _drop came since
    device,               \* the registers and bits of the Modbus device
    inflight,             \* the link primitives running on executor threads
    pc,                   \* where each coroutine is suspended
    loc,                  \* the locals of each coroutine and the counts of its call
    shadow,               \* the holding registers after the accepted writes, applied in order
    ev,                   \* what the last step returned to or raised at a caller
    args,                 \* the arguments of a call of a module-level function
    ret                   \* what the call has returned

\* The state of the coordinator and of its device.
coordinator == << document, mapping_loaded, entities, connected, data, last_update_success,
                 lock, clientCreated, established, device, inflight, pc, loc, shadow, ev >>

vars == << coordinator, args, ret >>

\* The function called has not returned.
NoResult == [done |-> FALSE, value |-> << >>]

NoData == [set |-> FALSE, m |-> EmptySnapshot]
Snapshot(m) == [set |-> TRUE, m |-> m]

\* The locals of a coroutine that is not running.  Beside the locals of the
\* code (att is the loop index of write_holding, lastEx its variable last,
\* cur the register value to write, ri / ei the range and the entity
\* _read_all is at, rdata its dict data) the record keeps what the call has
\* done so far: the connects and drops it has issued, whether one of its
\* reads has raised a transport-level error, the error of its
\* latest failed attempt, and the keys whose batch read, individual read
\* or decode has failed, and the reads that have been answered (reads).
IdleLoc ==
    [op |-> "none", key |-> "", val |-> 0, att |-> 0, lastEx |-> "", failure |-> "",
     cur |-> 0,
     ri |-> 0, ei |-> 0, rdata |-> EmptySnapshot,
     connFailed |-> FALSE, linkError |-> FALSE, first |-> FALSE,
     nConn |-> 0, nDrop |-> 0,
     batchFailed |-> {}, indivFailed |-> {}, decodeFailed |-> {},
     loadError |-> "", press |-> FALSE, valNone |-> FALSE, reads |-> << >>]

\* What a step returns to or raises at the caller of an operation: the
\* outcome, the message of the error raised, the refresh tasks the call has
\* created, whether the device took the value written, and the locals of
\* the call when it ended.
NoEv == [task |-> NoTask, op |-> "none", outcome |-> "none", msg |-> "",
         scheduled |-> 0, applied |-> FALSE, l |-> IdleLoc]

Event(t, op, outcome, msg, scheduled, applied, L) ==
    [task |-> t, op |-> op, outcome |-> outcome, msg |-> msg,
     scheduled |-> scheduled, applied |-> applied, l |-> L]

Job(t, op) == [task |-> t, op |-> op]

(***************************************************************************)
(* asyncio.Lock: acquire() returns at once when the lock is free and has   *)
(* no waiter, and queues the caller otherwise; release() hands the lock to *)
(* the first waiter.                                                       *)
(***************************************************************************)
LockFreeMut(lk) == TRUE
\* async with self._lock, when it does not suspend
LockFree(lk) == lk.holder = NoTask /\ Len(lk.waiters) = 0

Acquired(lk, t) == [holder |-> t, waiters |-> lk.waiters]
Queued(lk, t) == [lk EXCEPT !.waiters = Append(@, t)]
ReleasedMut(lk) == lk
Released(lk) ==
    IF Len(lk.waiters) = 0 THEN [holder |-> NoTask, waiters |-> << >>]
    ELSE [holder |-> Head(lk.waiters), waiters |-> Tail(lk.waiters)]

(***************************************************************************)
(* Mapping load                                                            *)
(***************************************************************************)
EntityByKey(ents, key) == ents[CHOOSE i \in 1..Len(ents) : ents[i].key = key]

KeysOf(ents) == {ents[i].key : i \in 1..Len(ents)}

(***************************************************************************)
(* The device and the answers of the link primitives                       *)
(***************************************************************************)
BankOf(dev, reg_type) ==
    CASE reg_type = "holding" -> dev.holding
      [] reg_type = "input" -> dev.input
      [] reg_type = "coil" -> dev.coil
      [] OTHER -> dev.discrete

\* The first n values a read of the bank at start answers with.
ValuesFrom(bank, start, n) == [i \in 1..n |-> bank[start + i - 1]]

\* The lengths of an answer that is shorter than the count asked for.
ShortLens(count) == {n \in {0, count - 1} : n >= 0 /\ n < count}

\* What a read primitive can do: answer in full, answer short, answer with
\* a device error response, or raise a transport error.
ReadOutcomes(count) ==
    {[kind |-> "ok", n |-> count]}
    \cup {[kind |-> "ok", n |-> n] : n \in ShortLens(count)}
    \cup {[kind |-> "errresp", n |-> 0], [kind |-> "oserror", n |-> 0]}

\* The read raised, or _rr_is_error(rr) made the coordinator raise.
ReadFailed(o) == o.kind # "ok"

\* The read raised an OSError, a ConnectionError or a timeout.
ReadRaisedTransport(o) == o.kind = "oserror"

\* The registers an entity's decode needs from offset off of an answer.
NeededLen(p, off) ==
    IF IsBitKind(p.reg_type) \/ p.has_bit THEN off + 1
    ELSE IF p.dtype \in {"uint32", "int32", "float32"} THEN off + 2 ELSE off + 1

(***************************************************************************)
(* refresh(): _async_update_data under the coordinator's refresh wrapper   *)
(***************************************************************************)
\* The coordinator's refresh wrapper keeps the snapshot an update returns:
\* it is what collaborators read until the next refresh.
StoredData(raised, result) == IF raised THEN data ELSE Snapshot(result)

\* The availability flag reflects the last refresh: false after an update
\* failure, true after an update that returned.
UpdateSuccess(raised) == ~raised

\* The end of _async_update_data: it returns result or raises UpdateFailed,
\* with the lock released.
FinishRefresh(t, L, lk, fl, raised, msg, result) ==
    /\ pc' = [pc EXCEPT ![t] = "idle"]
    /\ loc' = [loc EXCEPT ![t] = IdleLoc]
    /\ lock' = lk
    /\ inflight' = fl
    /\ data' = StoredData(raised, result)
    /\ last_update_success' = UpdateSuccess(raised)
    /\ ev' = Event(t, "refresh", IF raised THEN "raised" ELSE "returned", msg, 0, FALSE, L)

IsTransportErrorMut(exc) == TRUE
\* isinstance(e, (OSError, ConnectionError, asyncio.TimeoutError))
IsTransportError(exc) == exc \in {"OSError", "ConnectionError", "TimeoutError"}

\* return self.data or {}
LastKnownDataMut == [k \in AllKeys |-> Null]
LastKnownData == IF data.set THEN data.m ELSE EmptySnapshot

\* A coroutine suspended on an executor job.
Await(t, L, lk, fl, op, at) ==
    /\ pc' = [pc EXCEPT ![t] = at]
    /\ loc' = [loc EXCEPT ![t] = L]
    /\ lock' = lk
    /\ inflight' = fl \cup {Job(t, op)}
    /\ ev' = NoEv

CycleFailedMut(t, L, lk, fl, exc) ==
    FinishRefresh(t, L, Released(lk), fl, TRUE, exc, LastKnownData)
\* The except branch of _async_update_data (lines 251-262), taken with the
\* lock held: drop on a transport-level error, then return the last data.
CycleFailed(t, L, lk, fl, exc) ==
    IF IsTransportError(exc)
    THEN /\ Await(t, [L EXCEPT !.nDrop = @ + 1], lk, fl, "close", "drop")
         /\ UNCHANGED << data, last_update_success >>
    ELSE FinishRefresh(t, L, Released(lk), fl, FALSE, "", LastKnownData)

\* The batch read of range L.ri of the plan, or the end of _read_all when
\* the plan is exhausted.
NextRange(t, L, lk, fl, ents) ==
    LET plan == ReadPlan(ents)
    IN  IF L.ri > Len(plan)
        THEN FinishRefresh(t, L, Released(lk), fl, FALSE, "", L.rdata)
        ELSE /\ Await(t, [L EXCEPT !.ei = 0], lk, fl, "read", "r_batch")
             /\ UNCHANGED << data, last_update_success >>

\* _read_all from its first line.
ReadAll(t, L, lk, fl, ents) ==
    NextRange(t, [L EXCEPT !.rdata = EmptySnapshot, !.ri = 1], lk, fl, ents)

\* _ensure, then _read_all, with the lock held.
RefreshEnsure(t, L, lk, fl, conn, ents) ==
    IF conn
    THEN ReadAll(t, L, lk, fl, ents)
    ELSE /\ Await(t, [L EXCEPT !.nConn = @ + 1], lk, fl, "connect", "r_connect")
         /\ UNCHANGED << data, last_update_success >>

\* async with self._lock
RefreshLock(t, L, ents) ==
    IF LockFree(lock)
    THEN RefreshEnsure(t, L, Acquired(lock, t), inflight, connected, ents)
    ELSE /\ pc' = [pc EXCEPT ![t] = "r_wait"]
         /\ loc' = [loc EXCEPT ![t] = L]
         /\ lock' = Queued(lock, t)
         /\ ev' = NoEv
         /\ UNCHANGED << inflight, data, last_update_success >>

\* refresh() is called: by the poll timer, or as the refresh a write has
\* scheduled.
RefreshCall(t) ==
    /\ t \in Refreshers
    /\ pc[t] = "idle"
    /\ LET L == [IdleLoc EXCEPT !.op = "refresh", !.first = ~data.set]
       IN  IF mapping_loaded
           THEN RefreshLock(t, L, entities)
           ELSE /\ pc' = [pc EXCEPT ![t] = "load"]
                /\ loc' = [loc EXCEPT ![t] = L]
                /\ ev' = NoEv
                /\ UNCHANGED << lock, inflight, data, last_update_success >>
    /\ UNCHANGED << args, ret, document, mapping_loaded, entities, connected, clientCreated, established,
                    device, shadow >>

\* load_mapping_sync returns or raises in the executor.
LoadDone(t) ==
    /\ pc[t] = "load"
    /\ \E found \in BOOLEAN :
          LET r == LoadMappingSync(found, document)
          IN  IF r.ok
              THEN /\ entities' = r.entities
                   /\ mapping_loaded' = TRUE
                   /\ RefreshLock(t, loc[t], r.entities)
              ELSE /\ FinishRefresh(t, [loc[t] EXCEPT !.loadError = r.error],
                                    lock, inflight, TRUE, "mapping", data.m)
                   /\ UNCHANGED << mapping_loaded, entities >>
    /\ UNCHANGED << args, ret, document, connected, clientCreated, established, device, shadow >>

\* The lock is handed to a waiting refresh.
RefreshResume(t) ==
    /\ pc[t] = "r_wait"
    /\ lock.holder = t
    /\ RefreshEnsure(t, loc[t], lock, inflight, connected, entities)
    /\ UNCHANGED << args, ret, document, mapping_loaded, entities, connected, clientCreated, established,
                    device, shadow >>

ClientConnectMut(client, o) ==
    [raised |-> o = "raises", value |-> o = "true", client |-> TRUE, called |-> TRUE]
\* ModbusClientWrapper.connect: the client is made when there is none; the
\* connect of the client returns true, returns false or raises (o), and
\* the wrapper returns its truth value, or False from the except branch.
ClientConnect(client, o) ==
    IF o = "raises"
    THEN [raised |-> FALSE, value |-> FALSE, client |-> TRUE, called |-> TRUE]
    ELSE [raised |-> FALSE, value |-> o = "true", client |-> TRUE, called |-> TRUE]

\* ModbusClientWrapper.close: returns at once when there is no client;
\* the close of the client returns or raises (o), and the except branch
\* logs what it raises.
ClientClose(client, o) ==
    IF ~client
    THEN [raised |-> FALSE, value |-> FALSE, client |-> FALSE, called |-> FALSE]
    ELSE [raised |-> FALSE, value |-> FALSE, client |-> TRUE, called |-> TRUE]

ConnectedAfterMut(ok, conn) == TRUE
\* The flag after client.connect has returned ok to _ensure: raise before
\* the assignment when not ok, self._connected = True otherwise.
ConnectedAfter(ok, conn) == IF ok THEN TRUE ELSE conn

\* client.connect returns to _ensure in a refresh.
RefreshConnectDone(t) ==
    /\ pc[t] = "r_connect"
    /\ clientCreated' = TRUE
    /\ \E o \in {"true", "false", "raises"} :
          IF ClientConnect(clientCreated, o).value
          THEN /\ connected' = ConnectedAfter(TRUE, connected)
               /\ established' = TRUE
               /\ ReadAll(t, loc[t], lock, inflight \ {Job(t, "connect")}, entities)
          ELSE /\ connected' = ConnectedAfter(FALSE, connected)
               /\ established' = FALSE
               /\ CycleFailed(t, [loc[t] EXCEPT !.connFailed = TRUE], lock,
                              inflight \ {Job(t, "connect")}, "UpdateFailed")
    /\ UNCHANGED << args, ret, document, mapping_loaded, entities, device, shadow >>

\* The snapshot after the entities of a range are decoded from one answer
\* (lines 383-404 and 474-486).
DecodeBatch(rdata, g, values) ==
    [k \in AllKeys |->
        IF \E i \in 1..Len(g.ps) : g.ps[i].key = k
        THEN LET i == CHOOSE j \in 1..Len(g.ps) :
                        /\ g.ps[j].key = k
                        /\ \A m \in (j + 1)..Len(g.ps) : g.ps[m].key # k
                 p == g.ps[i]
                 off == p.addr - g.s
             IN  IF IsBitKind(g.reg_type) THEN DecodeBitEntity(values, off)
                 ELSE DecodeRegEntity(p, Slice(values, off, p.width))
        ELSE rdata[k]]

DecodeOneMut(rdata, reg_type, p, o, values) ==
    IF ReadFailed(o) THEN rdata
    ELSE [rdata EXCEPT ![p.key] = IF IsBitKind(reg_type) THEN DecodeBitEntity(values, 0)
                                  ELSE DecodeRegEntity(p, values)]
\* The snapshot after one entity is read on its own (lines 407-438 and
\* 489-510): its decoded value, or None when the read or the decode fails.
DecodeOne(rdata, reg_type, p, o, values) ==
    [rdata EXCEPT ![p.key] =
        IF ReadFailed(o) THEN Null
        ELSE IF IsBitKind(reg_type) THEN DecodeBitEntity(values, 0)
        ELSE DecodeRegEntity(p, values)]

OneCountMut(reg_type, p) == 1
\* The count the individual read of an entity asks for.
OneCount(reg_type, p) == IF IsBitKind(reg_type) THEN 1 ELSE p.width

BatchReadFailedMut(t, L, lk, fl, o, keys) ==
    /\ Await(t, [L EXCEPT !.batchFailed = @ \cup keys, !.nDrop = @ + 1,
                          !.linkError = @ \/ ReadRaisedTransport(o)],
             lk, fl, "close", "drop")
    /\ UNCHANGED << data, last_update_success >>
\* except Exception as ex of the batch read (lines 377-381 and 468-472):
\* the failure is logged, whatever it is, and the cycle goes on to the
\* individual reads of the range.
BatchReadFailed(t, L, lk, fl, o, keys) ==
    /\ Await(t, [L EXCEPT !.ei = 1, !.batchFailed = @ \cup keys,
                          !.linkError = @ \/ ReadRaisedTransport(o)],
             lk, fl, "read", "r_one")
    /\ UNCHANGED << data, last_update_success >>

\* The batch read of a range returns or raises.
BatchDone(t) ==
    /\ pc[t] = "r_batch"
    /\ \E g \in {ReadPlan(entities)[loc[t].ri]} :
       \E L \in {[loc[t] EXCEPT !.reads = Append(@, [kind |-> "batch", ri |-> loc[t].ri,
                                                     s |-> g.s, n |-> g.e - g.s + 1])]} :
       LET fl == inflight \ {Job(t, "read")}
           keys == {g.ps[i].key : i \in 1..Len(g.ps)}
       IN  \E o \in ReadOutcomes(g.e - g.s + 1) :
              IF ReadFailed(o)
              THEN BatchReadFailed(t, L, lock, fl, o, keys)
              ELSE LET values == ValuesFrom(BankOf(device, g.reg_type), g.s, o.n)
                       short == {g.ps[i].key : i \in {j \in 1..Len(g.ps) :
                                     o.n < NeededLen(g.ps[j], g.ps[j].addr - g.s)}}
                   IN  NextRange(t, [L EXCEPT !.rdata = DecodeBatch(@, g, values),
                                              !.decodeFailed = @ \cup short,
                                              !.ri = @ + 1],
                                 lock, fl, entities)
    /\ UNCHANGED << args, ret, document, mapping_loaded, entities, connected, clientCreated, established,
                    device, shadow >>

\* The individual read of one entity of a failed range returns or raises.
OneDone(t) ==
    /\ pc[t] = "r_one"
    /\ \E g \in {ReadPlan(entities)[loc[t].ri]} :
       \E L \in {[loc[t] EXCEPT !.reads = Append(@, [kind |-> "one", ri |-> loc[t].ri,
                                                     s |-> g.ps[loc[t].ei].addr,
                                                     n |-> OneCount(g.reg_type,
                                                                    g.ps[loc[t].ei])])]} :
       LET p == g.ps[L.ei]
           fl == inflight \ {Job(t, "read")}
       IN  \E o \in ReadOutcomes(OneCount(g.reg_type, p)) :
              LET values == ValuesFrom(BankOf(device, g.reg_type), p.addr, o.n)
                  L1 == [L EXCEPT
                            !.rdata = DecodeOne(@, g.reg_type, p, o, values),
                            !.indivFailed = IF ReadFailed(o) THEN @ \cup {p.key} ELSE @,
                            !.linkError = @ \/ ReadRaisedTransport(o),
                            !.decodeFailed = IF ~ReadFailed(o) /\ o.n < NeededLen(p, 0)
                                             THEN @ \cup {p.key} ELSE @]
              IN  IF L.ei < Len(g.ps)
                  THEN /\ Await(t, [L1 EXCEPT !.ei = @ + 1], lock, fl, "read", "r_one")
                       /\ UNCHANGED << data, last_update_success >>
                  ELSE NextRange(t, [L1 EXCEPT !.ri = @ + 1], lock, fl, entities)
    /\ UNCHANGED << args, ret, document, mapping_loaded, entities, connected, clientCreated, established,
                    device, shadow >>

(***************************************************************************)
(* write_holding()                                                         *)
(***************************************************************************)
HasWriteSectionMut(ent) == TRUE
\* if not w: return
HasWriteSection(ent) == ent.write.present

IsHoldingWriteMut(ent) == TRUE
\* w_type != "holding" raises
IsHoldingWrite(ent) == ent.write.type = "holding"

SetBit(cur, bit) == IF BitOf(cur, bit) = 1 THEN cur ELSE cur + Pow2(bit)
ClearBit(cur, bit) == IF BitOf(cur, bit) = 1 THEN cur - Pow2(bit) ELSE cur

BitWriteValueMut(reg, bit, val) == IF val # 0 THEN Pow2(bit) ELSE 0
\* cur = int(rr.registers[0]) & 0xFFFF, then cur |= (1 << bit) for a truthy
\* value and cur &= ~(1 << bit) otherwise.
BitWriteValue(reg, bit, val) ==
    IF val # 0 THEN SetBit(Low16(reg), bit) ELSE ClearBit(Low16(reg), bit)

TruncDivMut(a, b) ==
    LET n == IF a >= 0 THEN a ELSE -a
        d == IF b > 0 THEN b ELSE -b
    IN  IF (a >= 0) = (b > 0) THEN n \div d ELSE -((n + d - 1) \div d)
\* int(v) of a quotient: truncation toward zero.
TruncDiv(a, b) ==
    IF (a >= 0) = (b > 0) THEN (IF a >= 0 THEN a ELSE -a) \div (IF b > 0 THEN b ELSE -b)
    ELSE -((IF a >= 0 THEN a ELSE -a) \div (IF b > 0 THEN b ELSE -b))

\* The register value of a plain write (lines 571-578) of the value
\* num / den under the scale snum / sden: int(float(value) / float(scale))
\* when the scale is there and float(scale) != 0.0, and int(value)
\* otherwise.
PlainWriteQuotient(has_scale, snum, sden, num, den) ==
    IF has_scale /\ snum # 0 THEN TruncDiv(num * sden, den * snum)
    ELSE TruncDiv(num, den)

\* The register value of a plain write of an integer under an integer
\* scale.
PlainWriteValue(w, val) == PlainWriteQuotient(w.has_scale, w.scale, 1, val, 1)

RefreshTasksCreatedMut(outcome) == 1
\* self.hass.async_create_task(self.async_request_refresh()), reached only
\* when the call has not raised or returned before.
RefreshTasksCreated(outcome) == IF outcome = "ok" THEN 1 ELSE 0

\* The end of a write_holding that raises or returns with the lock released.
FinishWrite(t, L, lk, fl, outcome, msg, applied) ==
    /\ pc' = [pc EXCEPT ![t] = "idle"]
    /\ loc' = [loc EXCEPT ![t] = IdleLoc]
    /\ lock' = lk
    /\ inflight' = fl
    /\ ev' = Event(t, "write", outcome, msg, RefreshTasksCreated(outcome), applied, L)
    /\ UNCHANGED << data, last_update_success >>

HeldOverAwaitMut(lk) == Released(lk)
\* The with block of write_holding spans its awaits: the lock stays with
\* its holder while an executor job runs.
HeldOverAwait(lk) == lk

\* A coroutine of write_holding suspended on an executor job.
WriteAwait(t, L, lk, fl, op, at) ==
    /\ Await(t, L, HeldOverAwait(lk), fl, op, at)
    /\ UNCHANGED << data, last_update_success >>

\* last = ex
KeepLast(last, ex) == ex

\* except Exception as ex: last = ex; await self._drop()
AttemptFailed(t, L, lk, fl, msg) ==
    WriteAwait(t, [L EXCEPT !.lastEx = KeepLast(@, msg), !.failure = msg, !.nDrop = @ + 1],
               lk, fl, "close", "drop")

\* async_write_holding: the entity it makes up for write_holding, from the
\* address, the data type and the scale of the write section w.
DummyEntity(w) ==
    MappedEntity("number", "_write", "_write", NoSection,
                 [Reg("holding", w.address, w.data_type) EXCEPT
                      !.has_scale = w.has_scale, !.scale = w.scale],
                 FALSE, 0)

\* The entity write_holding has been called with: the entity of the
\* platform object, or the one async_write_holding has made up for a
\* button.
WrittenEntity(ents, L) ==
    IF L.press THEN DummyEntity(EntityByKey(ents, L.key).write)
    ELSE EntityByKey(ents, L.key)

WriteBodyMut(t, L, lk, fl, ents) ==
    LET w == WrittenEntity(ents, L).write
    IN  IF w.has_bit /\ L.att = 0
        THEN WriteAwait(t, L, lk, fl, "read", "w_read")
        ELSE WriteAwait(t, L, lk, fl, "write", "w_write")

\* The body of one attempt after _ensure: the read of a read-modify-write,
\* or the plain write.  float(None) and int(None) raise TypeError.
WriteBody(t, L, lk, fl, ents) ==
    LET w == WrittenEntity(ents, L).write
    IN  IF w.has_bit
        THEN WriteAwait(t, L, lk, fl, "read", "w_read")
        ELSE IF L.valNone
        THEN AttemptFailed(t, L, lk, fl, "TypeError")
        ELSE WriteAwait(t, [L EXCEPT !.cur = PlainWriteValue(w, L.val)], lk, fl,
                        "write", "w_write")

\* One attempt from its first line: _ensure, then the body.
WriteAttempt(t, L, lk, fl, conn, ents) ==
    IF conn
    THEN WriteBody(t, L, lk, fl, ents)
    ELSE WriteAwait(t, L, lk, fl, "connect", "w_connect")

\* write_holding from its first line to its first suspension.
WriteHolding(t, L, ent) ==
    IF ~HasWriteSection(ent)
    THEN FinishWrite(t, L, lock, inflight, "noop", "", FALSE)
    ELSE IF ~IsHoldingWrite(ent)
    THEN FinishWrite(t, L, lock, inflight, "unsupported", ent.write.type, FALSE)
    ELSE IF LockFree(lock)
    THEN WriteAttempt(t, L, Acquired(lock, t), inflight, connected, entities)
    ELSE /\ pc' = [pc EXCEPT ![t] = "w_wait"]
         /\ loc' = [loc EXCEPT ![t] = L]
         /\ lock' = Queued(lock, t)
         /\ ev' = NoEv
         /\ UNCHANGED << inflight, data, last_update_success >>

\* write_holding(ent, value) is called by the entity of a loaded mapping.
WriteCall(t, key, val) ==
    /\ t \in Writers
    /\ pc[t] = "idle"
    /\ mapping_loaded
    /\ key \in KeysOf(entities)
    /\ WriteHolding(t, [IdleLoc EXCEPT !.op = "write", !.key = key, !.val = val],
                    EntityByKey(entities, key))
    /\ UNCHANGED << args, ret, document, mapping_loaded, entities, connected, clientCreated, established,
                    device, shadow >>

\* getattr(self.ent, "press_value", 1): the attribute of the dataclass is
\* always there, and is None when the document gives no press_value.
GetPressValue(ent) ==
    [none |-> ~ent.has_press_value, v |-> ent.press_value]

\* MappedButton.async_press: returns when the entity has no write section,
\* and calls async_write_holding with the press value otherwise.
PressCall(t, key) ==
    /\ t \in Writers
    /\ pc[t] = "idle"
    /\ mapping_loaded
    /\ key \in KeysOf(entities)
    /\ LET ent == EntityByKey(entities, key)
           pv == GetPressValue(ent)
           L == [IdleLoc EXCEPT !.op = "write", !.key = key, !.press = TRUE,
                                !.valNone = pv.none, !.val = pv.v]
       IN  /\ ent.platform = "button"
           /\ IF ~ent.write.present
              THEN FinishWrite(t, L, lock, inflight, "noop", "", FALSE)
              ELSE WriteHolding(t, L, DummyEntity(ent.write))
    /\ UNCHANGED << args, ret, document, mapping_loaded, entities, connected, clientCreated, established,
                    device, shadow >>

\* The lock is handed to a waiting write.
WriteResume(t) ==
    /\ pc[t] = "w_wait"
    /\ lock.holder = t
    /\ WriteAttempt(t, loc[t], lock, inflight, connected, entities)
    /\ UNCHANGED << args, ret, document, mapping_loaded, entities, connected, clientCreated, established,
                    device, shadow >>

\* client.connect returns to _ensure in a write attempt.
WriteConnectDone(t) ==
    /\ pc[t] = "w_connect"
    /\ clientCreated' = TRUE
    /\ LET fl == inflight \ {Job(t, "connect")}
       IN  \E o \in {"true", "false", "raises"} :
              IF ClientConnect(clientCreated, o).value
              THEN /\ connected' = ConnectedAfter(TRUE, connected)
                   /\ established' = TRUE
                   /\ WriteBody(t, loc[t], lock, fl, entities)
              ELSE /\ connected' = ConnectedAfter(FALSE, connected)
                   /\ established' = FALSE
                   /\ AttemptFailed(t, loc[t], lock, fl, "Connect failed")
    /\ UNCHANGED << args, ret, document, mapping_loaded, entities, device, shadow >>

\* The read of a read-modify-write returns or raises.  An answer without a
\* first register (an error response, a short answer) makes
\* rr.registers[0] raise.
WriteReadDone(t) ==
    /\ pc[t] = "w_read"
    /\ LET L == loc[t]
           w == WrittenEntity(entities, L).write
           fl == inflight \ {Job(t, "read")}
       IN  \E o \in ReadOutcomes(1) :
              IF o.kind = "ok" /\ o.n = 1
              THEN WriteAwait(t, [L EXCEPT !.cur = BitWriteValue(device.holding[w.address],
                                                                 w.bit, L.val)],
                              lock, fl, "write", "w_write")
              ELSE AttemptFailed(t, L, lock, fl,
                                 IF o.kind = "oserror" THEN "oserror" ELSE "IndexError")
    /\ UNCHANGED << args, ret, document, mapping_loaded, entities, connected, clientCreated, established,
                    device, shadow >>

\* What write_register can do: the device takes the value and acknowledges,
\* the device answers with an error response, or the call raises with the
\* value taken or not.
WriteOutcomes ==
    {[kind |-> "ok", applied |-> TRUE], [kind |-> "errresp", applied |-> FALSE],
     [kind |-> "oserror", applied |-> FALSE], [kind |-> "oserror", applied |-> TRUE]}

\* The holding register the device ends with.
Applied(bank, address, value) == [bank EXCEPT ![address] = value]

\* The bank after the change a write asks for is made to the register as
\* it is now: for a bit write the one bit takes the value and every other
\* bit stays.
Intended(bank, w, val) ==
    [bank EXCEPT ![w.address] =
        IF w.has_bit
        THEN @ + ((IF val # 0 THEN 1 ELSE 0) - BitOf(@, w.bit)) * Pow2(w.bit)
        ELSE PlainWriteValue(w, val)]

\* write_register returns or raises.  The answer is not examined: whatever
\* returns counts as a success.
WriteWriteDone(t) ==
    /\ pc[t] = "w_write"
    /\ LET L == loc[t]
           w == WrittenEntity(entities, L).write
           fl == inflight \ {Job(t, "write")}
       IN  \E o \in WriteOutcomes :
              /\ device' = IF o.applied
                           THEN [device EXCEPT !.holding = Applied(@, w.address, L.cur)]
                           ELSE device
              /\ shadow' = IF o.applied THEN Intended(shadow, w, L.val) ELSE shadow
              /\ IF o.kind = "oserror"
                 THEN AttemptFailed(t, L, lock, fl, o.kind)
                 ELSE FinishWrite(t, L, Released(lock), fl, "ok", "", o.applied)
    /\ UNCHANGED << args, ret, document, mapping_loaded, entities, connected, clientCreated, established >>

\* client.close returns to _drop: the flag is cleared, and the caller goes
\* on: a write to its next attempt or to its failure, a refresh to its
\* return.
DropDone(t) ==
    /\ pc[t] = "drop"
    /\ connected' = FALSE
    /\ LET L == loc[t]
           fl == inflight \ {Job(t, "close")}
       IN  IF L.op = "write"
           THEN IF L.att + 1 < WriteAttempts
                THEN WriteAttempt(t, [L EXCEPT !.att = @ + 1], lock, fl, FALSE, entities)
                ELSE FinishWrite(t, [L EXCEPT !.att = @ + 1], Released(lock), fl,
                                 "failed", L.lastEx, FALSE)
           ELSE FinishRefresh(t, L, Released(lock), fl, FALSE, "", LastKnownData)
    /\ established' = FALSE
    /\ UNCHANGED << args, ret, document, mapping_loaded, entities, clientCreated, device, shadow >>

(***************************************************************************)
(* async_close()                                                           *)
(***************************************************************************)
\* async_close submits client.close to the executor; it takes no lock.
CloseCall(t) ==
    /\ t \in Closers
    /\ pc[t] = "idle"
    /\ Await(t, [IdleLoc EXCEPT !.op = "close"], lock, inflight, "close", "c_close")
    /\ UNCHANGED << args, ret, document, mapping_loaded, entities, connected, data,
                    last_update_success, clientCreated, established, device, shadow >>

\* client.close returns to async_close, which leaves the flag as it is.
CloseDone(t) ==
    /\ pc[t] = "c_close"
    /\ pc' = [pc EXCEPT ![t] = "idle"]
    /\ loc' = [loc EXCEPT ![t] = IdleLoc]
    /\ inflight' = inflight \ {Job(t, "close")}
    /\ ev' = Event(t, "close", "returned", "", 0, FALSE, loc[t])
    /\ UNCHANGED << args, ret, document, mapping_loaded, entities, connected, data,
                    last_update_success, lock, clientCreated, established,
                    device, shadow >>

(***************************************************************************)
(* Specifications                                                          *)
(***************************************************************************)
ZeroBank == [a \in Addrs |-> 0]

\* The device of the switch document: bit 15 of holding register 1 is set
\* and both flags are clear; the input register holds -1 as an int16.
SwitchDevice ==
    [holding |-> [ZeroBank EXCEPT ![1] = 32768], input |-> [ZeroBank EXCEPT ![0] = 65535],
     coil |-> ZeroBank, discrete |-> ZeroBank]

InitWith(doc, dev) ==
    /\ args = [fn |-> "none"]
    /\ ret = NoResult
    /\ document = doc
    /\ mapping_loaded = FALSE
    /\ entities = << >>
    /\ connected = FALSE
    /\ data = NoData
    /\ last_update_success = TRUE
    /\ lock = [holder |-> NoTask, waiters |-> << >>]
    /\ clientCreated = FALSE
    /\ established = FALSE
    /\ device = dev
    /\ inflight = {}
    /\ pc = [t \in Tasks |-> "idle"]
    /\ loc = [t \in Tasks |-> IdleLoc]
    /\ shadow = dev.holding
    /\ ev = NoEv

Init == InitWith(Document(DocSwitches), SwitchDevice)

\* The values a caller passes to write_holding: falsy and truthy.
WriteValues == {0, 1}

\* The entity a writer task is the platform object of.
CallerKeys(t) == IF t = "w1" THEN {"flagA", "temp"} ELSE {"flagB", "valve"}

RefreshSteps(t) ==
    \/ RefreshCall(t)
    \/ LoadDone(t)
    \/ RefreshResume(t)
    \/ RefreshConnectDone(t)
    \/ BatchDone(t)
    \/ OneDone(t)

WriteSteps(t) ==
    \/ \E key \in CallerKeys(t), val \in WriteValues : WriteCall(t, key, val)
    \/ WriteResume(t)
    \/ WriteConnectDone(t)
    \/ WriteReadDone(t)
    \/ WriteWriteDone(t)
    \/ DropDone(t)

CloseSteps(t) ==
    \/ CloseCall(t)
    \/ CloseDone(t)

\* The poll timer and the two switches: every interleaving of refresh() and
\* write_holding() calls.
Next == \E t \in {"poll"} \cup Writers : RefreshSteps(t) \/ WriteSteps(t)

Spec == Init /\ [][Next]_vars

\* What goes on by itself once an operation is called: an executor job
\* returns or raises, and the event loop resumes the coroutine the lock
\* was handed to.
Continue(t) ==
    \/ LoadDone(t)
    \/ RefreshResume(t)
    \/ RefreshConnectDone(t)
    \/ BatchDone(t)
    \/ OneDone(t)
    \/ WriteResume(t)
    \/ WriteConnectDone(t)
    \/ WriteReadDone(t)
    \/ WriteWriteDone(t)
    \/ DropDone(t)

\* The poll timer and the two switches, each switch being turned on, with
\* every executor job returning or raising and every coroutine that can
\* run being run.
NextLive ==
    \E t \in {"poll"} \cup Writers :
        \/ RefreshCall(t)
        \/ \E key \in CallerKeys(t) : WriteCall(t, key, 1)
        \/ Continue(t)

SpecLive ==
    /\ Init
    /\ [][NextLive]_vars
    /\ \A t \in {"poll"} \cup Writers : WF_vars(Continue(t))

\* The poll timer, one switch and async_close(), as the unload of the
\* integration calls it.
NextClose ==
    \E t \in {"poll", "w1"} \cup Closers :
        RefreshSteps(t) \/ WriteSteps(t) \/ CloseSteps(t)

SpecClose == Init /\ [][NextClose]_vars

\* The devices of the plant document: temp is -32768 as an int16, energy
\* is the 32-bit value 65538, the door is open, and the alarm bit (bit 3 of
\* holding register 1) is set or clear beside other bits of the register.
PlantDevices ==
    {[holding |-> [ZeroBank EXCEPT ![0] = 32768, ![1] = r, ![3] = 1, ![4] = 2],
      input |-> ZeroBank, coil |-> ZeroBank,
      discrete |-> [ZeroBank EXCEPT ![2] = 1]] : r \in {8, 5}}

InitPoll == \E dev \in PlantDevices : InitWith(Document(DocPlant), dev)

\* Poll cycles over the plant document, with async_close().
NextPoll ==
    \E t \in {"poll"} \cup Closers :
        \/ RefreshCall(t)
        \/ LoadDone(t)
        \/ RefreshConnectDone(t)
        \/ BatchDone(t)
        \/ OneDone(t)
        \/ CloseSteps(t)

SpecPoll == InitPoll /\ [][NextPoll]_vars

\* A document with one write-only switch on bit b of holding register 1.
DocBit(b) == << Entry("switch", "flagA", NoSection, BitReg("holding", 1, b)) >>

\* The bit indexes and the register contents the bit writes are run on:
\* the lowest, a middle and the highest bit; all bits clear, all set, one
\* set, and the two alternating patterns.
BitIndexes == {0, 7, 15}
RegValues == {0, 128, 32768, 65535, 21845, 43690}

InitBits ==
    \E b \in BitIndexes, r \in RegValues :
        InitWith(Document(DocBit(b)), [SwitchDevice EXCEPT !.holding[1] = r])

\* Bit writes of one switch, with the refreshes that load the mapping.
NextBits ==
    \E t \in {"poll", "w1"} :
        \/ RefreshCall(t)
        \/ LoadDone(t)
        \/ RefreshResume(t)
        \/ RefreshConnectDone(t)
        \/ WriteSteps(t)

SpecBits == InitBits /\ [][NextBits]_vars

\* The poll timer and a requested refresh: every interleaving of two
\* refresh() calls.
NextLoad == \E t \in Refreshers : RefreshSteps(t)

SpecLoad == Init /\ [][NextLoad]_vars

\* The items the documents of the loading specification are made of: a
\* sensor without a name, a named bit flag, a second entity under the key
\* of the first, a flag on bit 16 of a register, and an item that is not a
\* mapping.
DocEntries ==
    { Entry("sensor", "temp", Reg("holding", 0, "int16"), NoSection),
      Named(Entry("binary_sensor", "alarm", BitReg("holding", 1, 3), NoSection), "Alarm"),
      Named(Entry("sensor", "temp", Reg("input", 2, "uint16"), NoSection), "Outdoor"),
      Entry("binary_sensor", "door", BitReg("holding", 1, 16), NoSection),
      NotADict }

MaxEntries == 2

EntryLists == UNION {[1..n -> DocEntries] : n \in 0..MaxEntries}

\* The documents: every list of at most MaxEntries items under a sound
\* root, and the roots with structural problems.
Documents ==
    {Document(es) : es \in EntryLists}
    \cup {[root_dict |-> r, device_dict |-> d, entities_list |-> l, entries |-> << >>] :
             r \in BOOLEAN, d \in BOOLEAN, l \in BOOLEAN}

InitDocs ==
    \E doc \in Documents :
        InitWith(doc, CHOOSE dev \in PlantDevices : dev.holding[1] = 8)

\* Poll cycles over a loaded document.
NextDocs ==
    \/ RefreshCall("poll")
    \/ LoadDone("poll")
    \/ RefreshConnectDone("poll")
    \/ BatchDone("poll")
    \/ OneDone("poll")

SpecDocs == InitDocs /\ [][NextDocs]_vars

\* A document of buttons: one without a press_value, one with a
\* press_value and a scale, one without a write section.
DocButtons ==
    << Entry("button", "reset", NoSection, Reg("holding", 6, "uint16")),
       PressValue(Entry("button", "valve", NoSection,
                        Scaled(Reg("holding", 5, "uint16"), 2)), 6),
       Entry("button", "door", NoSection, NoSection) >>

InitPress == InitWith(Document(DocButtons), SwitchDevice)

\* Presses of the buttons by two platform objects, with the refreshes
\* that load the mapping.
NextPress ==
    \/ \E t \in {"poll"} :
          \/ RefreshCall(t)
          \/ LoadDone(t)
          \/ RefreshResume(t)
          \/ RefreshConnectDone(t)
    \/ \E t \in Writers :
          \/ \E key \in KeysOf(entities) : PressCall(t, key)
          \/ WriteResume(t)
          \/ WriteConnectDone(t)
          \/ WriteWriteDone(t)
          \/ DropDone(t)

SpecPress == InitPress /\ [][NextPress]_vars

\* The coordinator of a specification that calls a module-level function.
Bystander ==
    /\ mapping_loaded = FALSE /\ entities = << >> /\ document = Document(<< >>)
    /\ connected = FALSE /\ data = NoData /\ last_update_success = TRUE
    /\ lock = [holder |-> NoTask, waiters |-> << >>]
    /\ clientCreated = FALSE /\ established = FALSE
    /\ device = SwitchDevice /\ shadow = SwitchDevice.holding /\ inflight = {}
    /\ pc = [t \in Tasks |-> "idle"] /\ loc = [t \in Tasks |-> IdleLoc]
    /\ ev = NoEv

\* The spans _group_ranges is run on: starts 0..PlanMaxStart, the two
\* widths an entity has (width = 2 if dtype.endswith("32") else 1), at
\* most PlanMaxItems spans in any order, each with its place in the list
\* as its payload, and limits 1..PlanMaxSpan.
PlanMaxStart == 3
PlanMaxItems == 3
PlanMaxSpan == 3

PlanWidths == {1, 2}

PlanSpans ==
    {[s |-> a, e |-> a + w - 1] : a \in 0..PlanMaxStart, w \in PlanWidths}

PlanItemLists ==
    UNION {{[i \in 1..n |-> [s |-> f[i].s, e |-> f[i].e, p |-> i]] :
               f \in [1..n -> PlanSpans]} : n \in 0..PlanMaxItems}

InitPlanner ==
    /\ Bystander
    /\ ret = NoResult
    /\ \E items \in PlanItemLists, max_span \in 1..PlanMaxSpan :
          args = [fn |-> "group_ranges", items |-> items, max_span |-> max_span]

\* _group_ranges(items, max_span) returns.
GroupRangesCall ==
    /\ args.fn = "group_ranges"
    /\ ~ret.done
    /\ ret' = [done |-> TRUE, value |-> GroupRanges(args.items, args.max_span)]
    /\ UNCHANGED << coordinator, args >>

SpecPlanner == InitPlanner /\ [][GroupRangesCall]_vars

\* The calls of connect() and close() on one ModbusClientWrapper, at most
\* MaxCalls of them: args.client is whether _client is set, args.log the
\* calls made with what the client's own connect or close did.
MaxCalls == 3

InitLink ==
    /\ Bystander
    /\ ret = NoResult
    /\ args = [fn |-> "link", client |-> FALSE, log |-> << >>]

\* connect() or close() is called and returns or raises.
LinkCall(fn, o) ==
    /\ args.fn = "link"
    /\ Len(args.log) < MaxCalls
    /\ LET r == IF fn = "connect" THEN ClientConnect(args.client, o)
                ELSE ClientClose(args.client, o)
       IN  /\ ret' = [done |-> TRUE, value |-> r]
           /\ args' = [args EXCEPT !.client = r.client, !.log = Append(@, << fn, o >>)]
    /\ UNCHANGED coordinator

SpecLink ==
    InitLink /\ [][\/ \E o \in {"true", "false", "raises"} : LinkCall("connect", o)
                  \/ \E o \in {"returns", "raises"} : LinkCall("close", o)]_vars

\* The plain writes: values in halves and in units, without a scale and
\* under the scales 0, 1/10, 3 and -2.
InitPlain ==
    /\ Bystander
    /\ ret = NoResult
    /\ \E num \in (-7)..7, den \in {1, 2} :
          \/ args = [fn |-> "plain_write", has_scale |-> FALSE, snum |-> 0, sden |-> 1,
                     num |-> num, den |-> den]
          \/ \E sc \in {<< 0, 1 >>, << 1, 10 >>, << 3, 1 >>, << -2, 1 >>} :
                args = [fn |-> "plain_write", has_scale |-> TRUE,
                        snum |-> sc[1], sden |-> sc[2], num |-> num, den |-> den]

\* The plain branch of write_holding computes the register value.
PlainWriteCall ==
    /\ args.fn = "plain_write"
    /\ ~ret.done
    /\ ret' = [done |-> TRUE,
               value |-> PlainWriteQuotient(args.has_scale, args.snum, args.sden,
                                            args.num, args.den)]
    /\ UNCHANGED << coordinator, args >>

SpecPlain == InitPlain /\ [][PlainWriteCall]_vars

\* A document of flags on bit b: one on a holding register, declared as a
\* scaled int32 in the order BA (two registers wide), and one on an input
\* register.
DocFlags(b) ==
    << Entry("binary_sensor", "alarm",
             [Scaled(BitReg("holding", 1, b), 10) EXCEPT
                  !.data_type = "int32", !.word_order = "BA"],
             NoSection),
       Entry("binary_sensor", "door", BitReg("input", 0, b), NoSection) >>

\* The register of a flag holds r; the register after the holding flag
\* holds the complement of r.
InitFlags ==
    \E b \in BitIndexes, r \in RegValues :
        InitWith(Document(DocFlags(b)),
                 [holding |-> [ZeroBank EXCEPT ![1] = r, ![2] = 65535 - r],
                  input |-> [ZeroBank EXCEPT ![0] = r],
                  coil |-> ZeroBank, discrete |-> ZeroBank])

\* Poll cycles over the flags, with async_close().
SpecFlags == InitFlags /\ [][NextPoll]_vars

\* The registers _decode_16_32 is run on: the small values, the values
\* around the sign bit and around the top of 16 bits, and values with bits
\* above bit 15.
CodecRegs ==
    (0..3) \cup {127, 128, 255, 256, 32766, 32767, 32768, 32769,
                 65534, 65535, 65536, 65537, 98304, 131071}

\* The words of the register pairs: zero, one, the values around the sign
\* bit, all bits set, and a value with a bit above bit 15.
CodecWords == {0, 1, 32767, 32768, 65535, 65538}

InitCodec ==
    /\ Bystander
    /\ ret = NoResult
    /\ \E word_order \in {"AB", "BA"} :
          \/ \E dtype \in {"uint16", "int16"}, r \in CodecRegs :
                args = [fn |-> "decode", dtype |-> dtype, regs |-> << r >>,
                        word_order |-> word_order]
          \/ \E dtype \in {"uint32", "int32", "float32"},
                hi \in CodecWords, lo \in CodecWords :
                args = [fn |-> "decode", dtype |-> dtype, regs |-> << hi, lo >>,
                        word_order |-> word_order]

\* _decode_16_32(dtype, regs, word_order) returns: a 32-bit value as its
\* two words.
DecodeCall ==
    /\ args.fn = "decode"
    /\ ~ret.done
    /\ ret' = [done |-> TRUE,
               value |-> IF Len(args.regs) = 2
                         THEN Decode32(args.dtype, OrderedRegs(args.regs, args.word_order))
                         ELSE Decode1632(args.dtype, args.regs, args.word_order)]
    /\ UNCHANGED << coordinator, args >>

SpecCodec == InitCodec /\ [][DecodeCall]_vars

(***************************************************************************)
(* Properties                                                              *)
(***************************************************************************)
\* Where a refresh or a write is while one of its link operations runs:
\* from its first link operation to its last it is at one of these.
LinkPcs == {"r_connect", "r_batch", "r_one", "w_connect", "w_read", "w_write", "drop"}

InSequence(t) == pc[t] \in LinkPcs

HasLinkOp(t) == \E j \in inflight : j.task = t

ReadableKeys(ents) == {ents[i].key : i \in {j \in 1..Len(ents) : IsReadable(ents[j])}}

\* C1: reads and writes are serialized.  While a poll cycle is between its
\* first and its last link operation no link operation of a write runs,
\* and while a write is between its first attempt and its last no link
\* operation of a poll cycle runs.
C1_ReadsAndWritesSerialized ==
    \A t \in Refreshers, u \in Writers :
        /\ InSequence(t) => ~HasLinkOp(u) /\ ~InSequence(u)
        /\ InSequence(u) => ~HasLinkOp(t)

\* A write is called in the middle of a poll cycle, which is at its second
\* range, and waits.
C1_Witness ==
    /\ pc["poll"] = "r_batch"
    /\ loc["poll"].ri = 2
    /\ pc["w1"] = "w_wait"

\* C2: two writes never interleave their link operations: a write is in its
\* sequence only while it holds the lock, so the second starts after the
\* first has released it.  No update is lost: the holding registers are
\* the ones the accepted writes yield when applied one after the other,
\* and after a bit write the device has taken, the bit has its value.
C2_WritesSerialized ==
    /\ \A u, v \in Writers : u # v => ~(InSequence(u) /\ (InSequence(v) \/ HasLinkOp(v)))
    /\ \A u \in Writers : InSequence(u) => lock.holder = u
    /\ device.holding = shadow
    /\ (ev.op = "write" /\ ev.outcome = "ok" /\ ev.applied) =>
          LET w == EntityByKey(entities, ev.l.key).write
          IN  w.has_bit =>
                 BitOf(device.holding[w.address], w.bit) = (IF ev.l.val # 0 THEN 1 ELSE 0)

\* The write of flagB returns with bit 0 and bit 1 of register 1 both set
\* and bit 15 as it was, while the next write of flagA, called during it,
\* waits for the lock.
C2_Witness ==
    /\ ev.task = "w2" /\ ev.op = "write" /\ ev.outcome = "ok" /\ ev.applied
    /\ ev.l.key = "flagB"
    /\ device.holding[1] = 32768 + 2 + 1
    /\ pc["w1"] = "w_wait" /\ loc["w1"].key = "flagA"

\* C3: at most one link operation is in flight at any time, the close of
\* async_close() included.
C3_OneLinkOperationInFlight == Cardinality(inflight) <= 1

\* C4: a write_holding() that ends on an entity with no write section has
\* returned as a no-op in the step it was called in: no link operation was
\* submitted, the connected flag, the snapshot, the lock and the device are
\* as before, and no refresh is scheduled.
C4_NoWriteSectionIsNoop ==
    [][(ev'.op = "write" /\ ~EntityByKey(entities', ev'.l.key).write.present)
          => /\ ev'.outcome = "noop"
             /\ ev'.scheduled = 0
             /\ UNCHANGED << connected, data, last_update_success, inflight, lock, pc,
                             clientCreated, established, device, shadow >>]_vars

\* write_holding() on the sensor temp returns as a no-op while a poll cycle
\* is reading over the established connection.
C4_Witness ==
    /\ ev.op = "write" /\ ev.outcome = "noop" /\ ev.l.key = "temp"
    /\ connected
    /\ pc["poll"] \in {"r_batch", "r_one"}

\* C5: a write_holding() that ends on an entity whose write type is not
\* "holding" has raised the unsupported-write error in the step it was
\* called in: no link operation was submitted, nothing was written, and
\* the connected flag is as before.
C5_UnsupportedWriteRejected ==
    [][(/\ ev'.op = "write"
        /\ EntityByKey(entities', ev'.l.key).write.present
        /\ EntityByKey(entities', ev'.l.key).write.type # "holding")
          => /\ ev'.outcome = "unsupported"
             /\ ev'.msg = EntityByKey(entities', ev'.l.key).write.type
             /\ ev'.scheduled = 0
             /\ UNCHANGED << connected, data, last_update_success, inflight, lock, pc,
                             clientCreated, established, device, shadow >>]_vars

\* The write of the coil-backed switch valve is rejected.
C5_Witness ==
    /\ ev.op = "write" /\ ev.outcome = "unsupported" /\ ev.msg = "coil"
    /\ ev.l.key = "valve" /\ ev.l.val = 1

\* C6: write_holding() makes at most 2 attempts and stops at the first
\* that succeeds; each failed attempt is followed by a drop (close, flag
\* false) before the next attempt, which therefore connects again; when
\* both attempts have failed it raises with the message of the last error
\* and the connected flag is false.
C6_WriteRetryPolicy ==
    /\ \A t \in Writers :
          pc[t] \in {"w_connect", "w_read", "w_write", "drop"} =>
              /\ loc[t].att < 2
              /\ loc[t].nDrop = loc[t].att + (IF pc[t] = "drop" THEN 1 ELSE 0)
              /\ pc[t] = "w_connect" => ~connected
    /\ (ev.op = "write" /\ ev.outcome = "ok") =>
          /\ ev.l.att \in {0, 1}
          /\ ev.l.nDrop = ev.l.att
    /\ (ev.op = "write" /\ ev.outcome = "failed") =>
          /\ ev.l.att = 2
          /\ ev.l.nDrop = 2
          /\ ev.msg = ev.l.failure
          /\ ev.scheduled = 0
          /\ ~connected

\* Both attempts of a write have failed, the second one at its connect.
C6_Witness ==
    /\ ev.op = "write" /\ ev.outcome = "failed"
    /\ ev.l.att = 2
    /\ ev.msg = "Connect failed"

C11_TransportErrorDropsLink ==
    (ev.op = "refresh" /\ ev.l.linkError) =>
        /\ ev.l.nDrop >= 1
        /\ ~connected

\* C10: in the snapshot a cycle returns after its connect succeeded (or
\* over the established connection) the null keys are exactly the entities
\* whose batch read and individual read both failed and the entities
\* whose decode failed; every other readable entity has a decoded value,
\* and the availability flag is true.
C10_FailureIsolation ==
    (ev.op = "refresh" /\ ev.outcome = "returned" /\ ~ev.l.connFailed) =>
        LET failed == (ev.l.batchFailed \cap ev.l.indivFailed) \cup ev.l.decodeFailed
        IN  /\ {k \in AllKeys : data.m[k] = Null} = failed
            /\ \A k \in ReadableKeys(entities) \ failed : data.m[k].t \in {"bool", "num"}
            /\ last_update_success

\* The batch read of the range of temp and alarm failed, the individual
\* read of temp succeeded and the one of alarm failed: alarm alone is
\* null.
C10_Witness ==
    /\ ev.op = "refresh" /\ ev.outcome = "returned" /\ ~ev.l.connFailed
    /\ ev.l.batchFailed = {"temp", "alarm"}
    /\ ev.l.indivFailed = {"alarm"}
    /\ ev.l.decodeFailed = {}
    /\ {k \in AllKeys : data.m[k] = Null} = {"alarm"}
    /\ data.m["temp"] = Num(-32768)

\* Where a refresh is before the first link operation of its cycle.
BeforeCycle == {"idle", "load", "r_wait"}

\* C12: a poll cycle in which no read raised a transport-level error,
\* whatever error responses and decode errors it met, issues no close and
\* ends with the connected flag true; and a cycle that begins with the
\* flag true issues no connect.
C12_NonTransportFailureKeepsLink ==
    /\ []((ev.op = "refresh" /\ ev.outcome = "returned" /\ ~ev.l.connFailed
              /\ ~ev.l.linkError)
            => (connected /\ ev.l.nDrop = 0))
    /\ [][\A t \in Refreshers :
            (pc[t] \in BeforeCycle /\ pc'[t] \notin BeforeCycle /\ connected)
                => (pc'[t] # "r_connect" /\ loc'[t].nConn = 0)]_vars

\* A cycle over the established connection has ended after a device error
\* response to its batch read and to an individual read.
C12_Witness ==
    /\ ev.op = "refresh" /\ ev.outcome = "returned"
    /\ ~ev.l.linkError /\ ev.l.nConn = 0
    /\ ev.l.batchFailed # {} /\ ev.l.indivFailed # {}
    /\ connected

\* A snapshot that holds a decoded value.
HasValues(d) == d.set /\ \E k \in AllKeys : d.m[k].t \in {"bool", "num"}

\* A snapshot in which every key of a readable entity is null.
AllNull(d, ents) ==
    /\ d.set
    /\ ReadableKeys(ents) # {}
    /\ \A k \in ReadableKeys(ents) : d.m[k] = Null

\* C13: once a cycle has produced decoded values, no refresh yields a
\* snapshot in which every key is null, and a key that had a value and
\* whose reads did not fail in the cycle keeps a value.
C13_NeverAllNull ==
    [][(HasValues(data) /\ ev'.op = "refresh" /\ ev'.outcome = "returned")
          => /\ ~AllNull(data', entities')
             /\ \A k \in AllKeys :
                   (/\ data.m[k].t \in {"bool", "num"}
                    /\ k \notin (ev'.l.batchFailed \cap ev'.l.indivFailed)
                                   \cup ev'.l.decodeFailed)
                       => data'.m[k].t \in {"bool", "num"}]_vars

\* C14: a write_holding() that succeeds has created exactly one refresh
\* task, with the lock released, and has returned; one that failed, was
\* rejected or was a no-op has created none; and no step of a write
\* changes the snapshot.
C14_RefreshScheduledAfterSuccess ==
    /\ [](ev.op = "write" =>
            /\ ev.outcome = "ok" => ev.scheduled = 1
            /\ ev.outcome \in {"failed", "unsupported", "noop"} => ev.scheduled = 0
            /\ lock.holder # ev.task
            /\ pc[ev.task] = "idle")
    /\ [][(\E t \in Writers : pc'[t] # pc[t] \/ ev'.task = t)
            => (data' = data /\ last_update_success' = last_update_success)]_vars

\* A write has succeeded and created its refresh task while a refresh
\* that waited for the lock has just been handed it.
C14_Witness ==
    /\ ev.op = "write" /\ ev.outcome = "ok" /\ ev.scheduled = 1
    /\ lock.holder = "poll" /\ pc["poll"] = "r_wait"
    /\ data.set

\* C15: every refresh() and every write_holding() that is called
\* completes, and the lock does not stay with a holder for ever.
C15_NoDeadlock ==
    /\ \A t \in {"poll"} \cup Writers : (pc[t] # "idle") ~> (pc[t] = "idle")
    /\ [](\A t \in Tasks : pc[t] = "idle" => lock.holder # t)

\* Two writes wait for the lock a poll cycle holds.
C15_Witness ==
    /\ lock.holder = "poll"
    /\ Len(lock.waiters) = 2
    /\ pc["w1"] = "w_wait" /\ pc["w2"] = "w_wait"

\* C16: the connected flag is true only if the most recent connect
\* returned success and no drop has happened since, and a connect runs
\* only while the flag is false.
C16_FlagFollowsConnect ==
    /\ connected => established
    /\ \A j \in inflight : j.op = "connect" => ~connected

\* A poll cycle that began with the flag true reads without having issued
\* a connect, after an earlier connect of the client.
C16_Witness ==
    /\ connected /\ established
    /\ pc["poll"] = "r_batch" /\ loc["poll"].nConn = 0

\* C17: when async_close() has returned, the connected flag is false.
C17_CloseClearsFlag == ev.op = "close" => ~connected

\* C18: a write_holding() that returns as a success has had its register
\* write taken by the device: a write the device answered with an error
\* response is not reported as a success and schedules no refresh.
C18_ErrorResponseFailsWrite ==
    (ev.op = "write" /\ ~ev.applied) =>
        (ev.outcome # "ok" /\ ev.scheduled = 0)

\* C19: the value a bit write is about to write back is within 0..0xFFFF
\* and is the register at that address with bit b set for a truthy input
\* and cleared for a falsy one, every other bit as in the register.
C19_BitWriteValue ==
    \A t \in Writers :
        pc[t] = "w_write" =>
            LET w == EntityByKey(entities, loc[t].key).write
                r == device.holding[w.address]
                cur == loc[t].cur
            IN  w.has_bit =>
                   /\ cur \in 0..65535
                   /\ \A b \in 0..15 :
                         BitOf(cur, b) = IF b = w.bit
                                         THEN (IF loc[t].val # 0 THEN 1 ELSE 0)
                                         ELSE BitOf(r, b)

\* Bit 15 of a register with all bits set is being cleared: 0x7FFF is
\* about to be written.
C19_Witness ==
    /\ pc["w1"] = "w_write"
    /\ EntityByKey(entities, loc["w1"].key).write.bit = 15
    /\ loc["w1"].val = 0
    /\ device.holding[1] = 65535
    /\ loc["w1"].cur = 32767

\* C20: the mapping loader completes successfully at most once: no load
\* returns its entities to a coordinator whose mapping is loaded already,
\* and the entity list of a loaded mapping never changes.
C20_LoadedOnce ==
    [][\A t \in Refreshers :
          (/\ pc[t] = "load"
           /\ pc'[t] # "load"
           /\ ~(ev'.task = t /\ ev'.outcome = "raised"))
              => ~mapping_loaded]_vars

\* C21: a mapping load failure is not retried: once a refresh has raised
\* because the mapping load failed, the refresh called next does not
\* invoke the mapping loader.
C21_LoadNotRetried ==
    [][(ev.op = "refresh" /\ ev.outcome = "raised" /\ ev.msg = "mapping")
          => \A t \in Refreshers : pc'[t] = "load" => pc[t] = "load"]_vars

\* The refresh that has just ended raised because the document was found
\* and _parse_mapping_data rejected it.
ParseFailed ==
    /\ ev.op = "refresh" /\ ev.outcome = "raised" /\ ev.msg = "mapping"
    /\ ev.l.loadError # LoadMappingSync(FALSE, document).error

\* C22: entity keys are unique within a loaded mapping: a document in
\* which two entities carry the same key is not loaded, so the entities of
\* a loaded mapping have pairwise distinct keys.
C22_LoadedKeysDistinct ==
    mapping_loaded =>
        \A i, j \in 1..Len(entities) : i # j => entities[i].key # entities[j].key

\* The structural problems of a document, after the rules for the root,
\* the device and the entities.
StructuralProblems(doc) ==
    IF ~doc.root_dict THEN {"root must be a mapping/dict"}
    ELSE {m \in {"device must be a mapping/dict"} : ~doc.device_dict}
         \cup {m \in {"entities must be a list"} : ~doc.entities_list}

\* C23: validation is collect-all: when the load of a document with two
\* or more structural problems fails, its error names every one of them.
C23_EveryProblemReported ==
    (ParseFailed /\ Cardinality(StructuralProblems(document)) >= 2)
        => StructuralProblems(document) \subseteq {ev.l.loadError}

\* A valid document: sound root, a non-empty list of mappings with
\* pairwise distinct keys.
ValidDocument(doc) ==
    /\ doc.root_dict /\ doc.device_dict /\ doc.entities_list
    /\ Len(doc.entries) >= 1
    /\ \A i \in 1..Len(doc.entries) : doc.entries[i].is_dict
    /\ \A i, j \in 1..Len(doc.entries) :
          i # j => doc.entries[i].key # doc.entries[j].key

\* C24: for a valid document the load returns one descriptor per entity
\* of the document, in document order, and the name of a descriptor is
\* the key when the entity has no name (and the name it has otherwise).
C24_OneDescriptorPerEntity ==
    (mapping_loaded /\ ValidDocument(document)) =>
        /\ Len(entities) = Len(document.entries)
        /\ \A i \in 1..Len(entities) :
              LET e == document.entries[i]
                  d == entities[i]
              IN  /\ d.key = e.key
                  /\ d.platform = e.platform
                  /\ d.read = e.read
                  /\ d.write = e.write
                  /\ d.name = (IF e.has_name THEN e.name ELSE e.key)

C24_Witness ==
    /\ mapping_loaded /\ ValidDocument(document)
    /\ Len(entities) = 2
    /\ ~document.entries[2].has_name /\ entities[2].name = "temp"
    /\ document.entries[1].has_name /\ entities[1].name = "Alarm"

\* C25: a mapping with a bit index outside 0..15 or a negative address
\* reaches neither the read planner nor the link: while a read of a poll
\* cycle runs, every read spec of the plan has its bit index (when it has
\* one) in 0..15 and a non-negative address.
C25_BitAndAddressInRange ==
    (\E j \in inflight : j.op = "read" /\ j.task \in Refreshers) =>
        \A i \in 1..Len(ReadPlan(entities)) :
            \A k \in 1..Len(ReadPlan(entities)[i].ps) :
                LET p == ReadPlan(entities)[i].ps[k]
                IN  (p.has_bit => p.bit \in 0..15) /\ p.addr >= 0

\* C26: the press value of a button defaults to 1.  A press of a button
\* whose entry has a write section and no press_value submits no write of
\* another value than 1, and fails only after the link has failed.
C26_PressValueDefaultsToOne ==
    /\ \A t \in Writers :
          (pc[t] = "w_write" /\ loc[t].press
             /\ ~EntityByKey(entities, loc[t].key).has_press_value)
          => loc[t].cur = 1
    /\ (ev.op = "write" /\ ev.l.press
          /\ EntityByKey(entities, ev.l.key).write.present
          /\ ~EntityByKey(entities, ev.l.key).has_press_value)
       => (ev.outcome = "ok" \/ ev.l.lastEx \in {"oserror", "Connect failed"})

\* _group_ranges has returned the ranges of spans that are each within
\* the limit.
Grouped ==
    /\ args.fn = "group_ranges" /\ ret.done
    /\ \A i \in 1..Len(args.items) :
          args.items[i].e - args.items[i].s + 1 <= args.max_span

\* C27: when every span is at most max_span wide, every range the planner
\* emits is at most max_span wide.
C27_RangeWithinMaxSpan ==
    Grouped =>
        \A g \in 1..Len(ret.value) :
            ret.value[g].e - ret.value[g].s + 1 <= args.max_span

\* Two ranges that touch, the first as wide as the limit: a merge was
\* refused for the width alone.
C27_Witness ==
    /\ Grouped
    /\ \E g \in 1..(Len(ret.value) - 1) :
          /\ ret.value[g + 1].s <= ret.value[g].e + 1
          /\ ret.value[g].e - ret.value[g].s + 1 = args.max_span
          /\ Len(ret.value[g].ps) >= 2

\* The end of the open range after the first k spans of ps have joined it.
RunEnd(ps, k) ==
    CHOOSE m \in {args.items[ps[j]].e : j \in 1..k} :
        \A j \in 1..k : args.items[ps[j]].e <= m

\* The rule under which a span joins the open range [s, e].
Joins(s, e, item) ==
    item.s <= e + 1 /\ Max(e, item.e) - s + 1 <= args.max_span

\* C28: a span joins the open range exactly when its start is at most the
\* end of the range plus one and the merged range is within max_span, and
\* opens a new range otherwise; so a range starts at its first span, ends
\* at the largest end of its spans, and every address of it is inside one
\* of its spans.
C28_MergeRule ==
    (args.fn = "group_ranges" /\ ret.done) =>
        \A g \in 1..Len(ret.value) :
            LET G == ret.value[g]
            IN  /\ G.s = args.items[G.ps[1]].s
                /\ G.e = RunEnd(G.ps, Len(G.ps))
                /\ \A k \in 2..Len(G.ps) :
                      Joins(G.s, RunEnd(G.ps, k - 1), args.items[G.ps[k]])
                /\ g > 1 => ~Joins(ret.value[g - 1].s, ret.value[g - 1].e,
                                   args.items[G.ps[1]])
                /\ \A a \in G.s..G.e :
                      \E k \in 1..Len(G.ps) :
                          args.items[G.ps[k]].s <= a /\ a <= args.items[G.ps[k]].e

\* A range of three spans beside another range.
C28_Witness ==
    /\ args.fn = "group_ranges" /\ ret.done
    /\ Len(ret.value) = 2
    /\ \E g \in 1..2 : Len(ret.value[g].ps) = 2
                        /\ ret.value[g].e > ret.value[g].s

\* The groups of a grouping f of the spans (f[i] is the group of span i)
\* are contiguous, gap-free and within the limit.
ValidGrouping(f) ==
    \A c \in {f[i] : i \in DOMAIN f} :
        LET S == {i \in DOMAIN f : f[i] = c}
            lo == CHOOSE a \in {args.items[i].s : i \in S} :
                      \A i \in S : a <= args.items[i].s
            hi == CHOOSE a \in {args.items[i].e : i \in S} :
                      \A i \in S : args.items[i].e <= a
        IN  /\ hi - lo + 1 <= args.max_span
            /\ \A a \in lo..hi :
                  \E i \in S : args.items[i].s <= a /\ a <= args.items[i].e

\* C29: the planner's grouping is minimal: no grouping of the same spans
\* into contiguous gap-free ranges within max_span has fewer ranges.
C29_FewestRanges ==
    Grouped =>
        \A f \in [1..Len(args.items) -> 1..Len(args.items)] :
            ValidGrouping(f) =>
                Len(ret.value) <= Cardinality({f[i] : i \in DOMAIN f})

\* Spans given out of order that fit one range.
C29_Witness ==
    /\ Grouped
    /\ Len(args.items) = 3 /\ Len(ret.value) = 1
    /\ args.items[1].s > args.items[2].s
    /\ args.items[3].s < args.items[2].s

\* C30: 16-bit decode.  Of one register r, whatever the word order,
\* uint16 is the value in 0..65535 that differs from r by a multiple of
\* 2^16 (r & 0xFFFF), and int16 is the value in -32768..32767 that does
\* (the sign extension): 0x8000 is -32768, 0x7FFF is 32767, 0xFFFF is -1.
C30_Decode16 ==
    (args.fn = "decode" /\ ret.done /\ Len(args.regs) = 1) =>
        LET r == args.regs[1]
        IN  /\ (r - ret.value) % 65536 = 0
            /\ args.dtype = "uint16" => ret.value \in 0..65535
            /\ args.dtype = "int16" =>
                  /\ ret.value \in (-32768)..32767
                  /\ r = 32768 => ret.value = -32768
                  /\ r = 32767 => ret.value = 32767
                  /\ r = 65535 => ret.value = -1

\* An int16 with the sign bit set under bits above bit 15, decoded with
\* the swapped word order.
C30_Witness ==
    /\ args.fn = "decode" /\ ret.done
    /\ args.dtype = "int16" /\ args.word_order = "BA"
    /\ args.regs = << 98304 >> /\ ret.value = -32768

\* C31: 32-bit decode and word order.  Of a register pair (hi, lo) in the
\* order AB, uint32 is (hi << 16) | lo of the masked registers and int32
\* is that value less 2^32 when its bit 31 is set; and for every 32-bit
\* type the decode of a pair in the order BA is the decode of the swapped
\* pair in the order AB.
C31_Decode32 ==
    (args.fn = "decode" /\ ret.done /\ Len(args.regs) = 2) =>
        LET first == IF args.word_order = "AB" THEN args.regs[1] ELSE args.regs[2]
            second == IF args.word_order = "AB" THEN args.regs[2] ELSE args.regs[1]
        IN  /\ ret.value.lo \in 0..65535 /\ (ret.value.lo - second) % 65536 = 0
            /\ (ret.value.hi - first) % 65536 = 0
            /\ args.dtype = "uint32" => ret.value.hi \in 0..65535
            /\ args.dtype = "int32" => ret.value.hi \in (-32768)..32767
            /\ args.word_order = "BA" =>
                  ret.value = Decode32(args.dtype,
                                       OrderedRegs(<< args.regs[2], args.regs[1] >>, "AB"))

\* The pair (lo, hi) = (1, 0x8000) in the order BA, decoded as int32:
\* -2^31 + 1.
C31_Witness ==
    /\ args.fn = "decode" /\ ret.done
    /\ args.dtype = "int32" /\ args.word_order = "BA"
    /\ args.regs = << 1, 32768 >>
    /\ ret.value = [hi |-> -32768, lo |-> 1]

\* The read spec of the readable entity with this key.
SpecOfKey(k) ==
    ReadSpecOf(entities[CHOOSE i \in 1..Len(entities) : entities[i].key = k])

\* C32: bit extraction on read.  In the snapshot a cycle returns, the
\* value of a holding or input entity with a bit index b whose read and
\* decode did not fail is the boolean (register at its address >> b) & 1,
\* whatever its data type, word order and scale, on the batch path and on
\* the path of the individual reads.
C32_BitExtraction ==
    (ev.op = "refresh" /\ ev.outcome = "returned" /\ ~ev.l.connFailed) =>
        \A k \in ReadableKeys(entities) :
            LET p == SpecOfKey(k)
                failed == (ev.l.batchFailed \cap ev.l.indivFailed) \cup ev.l.decodeFailed
            IN  (p.has_bit /\ p.reg_type \in {"holding", "input"} /\ k \notin failed) =>
                    /\ data.m[k].t = "bool"
                    /\ data.m[k].v =
                          (BankOf(device, p.reg_type)[p.addr] \div Pow2(p.bit)) % 2

\* The flag declared as a scaled int32 in the order BA is true on the
\* batch path and on the path of the individual reads, while the same bit
\* of the register after it is clear.
C32_Witness ==
    /\ ev.op = "refresh" /\ ev.outcome = "returned" /\ ~ev.l.connFailed
    /\ "alarm" \in ev.l.batchFailed \ ev.l.indivFailed
    /\ "alarm" \notin ev.l.decodeFailed
    /\ SpecOfKey("alarm").bit = 15 /\ SpecOfKey("alarm").dtype = "int32"
    /\ data.m["alarm"] = Bool(TRUE)
    /\ device.holding[2] < 32768
    /\ "door" \notin ev.l.batchFailed /\ data.m["door"] = Bool(TRUE)

Abs(x) == IF x >= 0 THEN x ELSE -x

\* q is the quotient n / d truncated toward zero.
IsTruncation(q, n, d) ==
    /\ Abs(q) * Abs(d) <= Abs(n)
    /\ Abs(n) < (Abs(q) + 1) * Abs(d)
    /\ q > 0 => (n > 0) = (d > 0)
    /\ q < 0 => (n > 0) # (d > 0)

\* C33: the register value of a plain holding write is the value divided
\* by the scale and truncated toward zero when the scale is present and
\* not zero, and the value truncated toward zero when the scale is absent
\* or zero.
C33_PlainWriteValue ==
    (args.fn = "plain_write" /\ ret.done) =>
        IF args.has_scale /\ args.snum # 0
        THEN IsTruncation(ret.value, args.num * args.sden, args.den * args.snum)
        ELSE IsTruncation(ret.value, args.num, args.den)

\* -7/2 under the scale -2 is 1.75 and is written as 1; 7/2 under the
\* scale 0 is written as 3.
C33_Witness ==
    /\ args.fn = "plain_write" /\ ret.done
    /\ \/ args.has_scale /\ args.snum = -2 /\ args.num = -7 /\ args.den = 2
          /\ ret.value = 1
       \/ args.has_scale /\ args.snum = 0 /\ args.num = 7 /\ args.den = 2
          /\ ret.value = 3

ReadsOf(rd, i, kind) == SelectSeq(rd, LAMBDA r : r.ri = i /\ r.kind = kind)

\* The individual reads the entities of range g ask for, in order.
OwnReads(g, i) ==
    [k \in 1..Len(g.ps) |->
        [kind |-> "one", ri |-> i, s |-> g.ps[k].addr,
         n |-> IF g.reg_type \in {"coil", "discrete"} THEN 1
               ELSE g.ps[k].width]]

\* The number of readable entities of a plan.
PlanEntities(plan) == Cardinality({<< i, k >> \in (1..Len(plan)) \X (1..4) :
                                      k <= Len(plan[i].ps)})

\* C35: in a poll cycle each planned range gets exactly one batch read; when
\* it succeeds no other read is issued for the range, when it fails each
\* entity of the range gets exactly one individual read at its own address
\* and width, whatever happens to the other ranges.  A cycle over R ranges
\* and E readable entities issues between R and R + E reads, and every step
\* of a cycle is the answer to one more read, after which the cycle issues
\* the next read or ends, so that the cycle ends after at most R + E reads.
C35_ReadProtocol ==
    /\ []((ev.op = "refresh" /\ ev.outcome = "returned" /\ ~ev.l.connFailed) =>
            LET plan == ReadPlan(entities)
                rd == ev.l.reads
            IN  /\ \A j \in 1..Len(rd) : rd[j].ri \in 1..Len(plan)
                /\ \A i \in 1..Len(plan) :
                      LET g == plan[i]
                          failed == \E k \in 1..Len(g.ps) : g.ps[k].key \in ev.l.batchFailed
                      IN  /\ ReadsOf(rd, i, "batch")
                                = << [kind |-> "batch", ri |-> i, s |-> g.s,
                                      n |-> g.e - g.s + 1] >>
                          /\ ReadsOf(rd, i, "one")
                                = IF failed THEN OwnReads(g, i) ELSE << >>
                /\ Len(rd) >= Len(plan)
                /\ Len(rd) <= Len(plan) + PlanEntities(plan))
    /\ [](\A t \in Refreshers :
            Len(loc[t].reads) <= Len(ReadPlan(entities)) + PlanEntities(ReadPlan(entities)))
    /\ [][\A t \in Refreshers :
            (pc[t] \in {"r_batch", "r_one"} /\ << pc'[t], loc'[t] >> # << pc[t], loc[t] >>)
                => \/ /\ pc'[t] = "idle"
                      /\ ev'.op = "refresh" /\ ev'.task = t
                      /\ Len(ev'.l.reads) = Len(loc[t].reads) + 1
                   \/ /\ pc'[t] \in {"r_batch", "r_one"}
                      /\ Job(t, "read") \in inflight'
                      /\ Len(loc'[t].reads) = Len(loc[t].reads) + 1]_vars

\* A cycle in which the batch reads of both holding ranges failed and the
\* one of the discrete range succeeded: three reads for the first range
\* (two entities), two for the second, one for the third.
C35_Witness ==
    /\ ev.op = "refresh" /\ ev.outcome = "returned" /\ ~ev.l.connFailed
    /\ Len(ReadPlan(entities)) = 3
    /\ {"temp", "energy"} \subseteq ev.l.batchFailed /\ "door" \notin ev.l.batchFailed
    /\ Len(ev.l.reads) = 6
    /\ ev.l.reads[3] = [kind |-> "one", ri |-> 1, s |-> 1, n |-> 1]
    /\ ev.l.reads[5] = [kind |-> "one", ri |-> 2, s |-> 3, n |-> 2]

\* ---------------------------------------------------------------------
\* A cycle that fails as a whole (C36).

\* C36: a refresh cycle that fails before it has read anything (its connect
\* fails) returns, and the snapshot it returns is the one of the previous
\* cycle, unchanged, or the empty snapshot when no cycle has produced one;
\* no key becomes null by it.
C36_FailedCycleKeepsSnapshot ==
    [][(ev'.op = "refresh" /\ ev'.l.connFailed) =>
          /\ ev'.outcome = "returned"
          /\ data'.set
          /\ data'.m = IF data.set THEN data.m ELSE EmptySnapshot
          /\ \A k \in AllKeys :
                data'.m[k] = Null => (data.set /\ data.m[k] = Null)]_vars

\* A cycle whose connect failed has returned the values and the null of an
\* earlier cycle.
C36_Witness ==
    /\ ev.op = "refresh" /\ ev.outcome = "returned" /\ ev.l.connFailed
    /\ ev.l.reads = << >>
    /\ HasValues(data)
    /\ \E k \in AllKeys : data.m[k] = Null

\* ---------------------------------------------------------------------
\* The planner partitions its input (C37).

\* The places << g, k >> of the emitted ranges: span k of range g.
Places ==
    {<< g, k >> \in (1..Len(ret.value)) \X (1..PlanMaxItems + 1) :
        k <= Len(ret.value[g].ps)}

\* Place x comes before place y in the emitted order.
Precedes(x, y) == x[1] < y[1] \/ (x[1] = y[1] /\ x[2] < y[2])

\* C37: for every input, each span is in exactly one emitted range and lies
\* wholly inside it (the offset of its start and its width are inside the
\* range), the ranges are emitted in ascending order of their starts, and
\* the spans are emitted in ascending order of their starts, spans of equal
\* start in the order of the input.
C37_PartitionAndOrder ==
    (args.fn = "group_ranges" /\ ret.done) =>
        LET item(x) == args.items[ret.value[x[1]].ps[x[2]]]
        IN  /\ \A x \in Places : ret.value[x[1]].ps[x[2]] \in 1..Len(args.items)
            /\ \A i \in 1..Len(args.items) :
                  Cardinality({x \in Places : ret.value[x[1]].ps[x[2]] = i}) = 1
            /\ \A g \in 1..Len(ret.value) : Len(ret.value[g].ps) >= 1
            /\ \A x \in Places :
                  LET G == ret.value[x[1]]
                  IN  /\ G.s <= item(x).s /\ item(x).e <= G.e
                      /\ item(x).s - G.s >= 0
                      /\ (item(x).s - G.s) + (item(x).e - item(x).s + 1) <= G.e - G.s + 1
            /\ \A g \in 1..(Len(ret.value) - 1) : ret.value[g].s <= ret.value[g + 1].s
            /\ Grouped =>
                  \A g \in 1..(Len(ret.value) - 1) : ret.value[g].s < ret.value[g + 1].s
            /\ \A x \in Places : \A y \in Places :
                  Precedes(x, y) =>
                      \/ item(x).s < item(y).s
                      \/ /\ item(x).s = item(y).s
                         /\ ret.value[x[1]].ps[x[2]] < ret.value[y[1]].ps[y[2]]

\* Three spans given out of order, two of them with the same start, put in
\* two ranges, one of which holds a span that is shorter than the range.
C37_Witness ==
    /\ args.fn = "group_ranges" /\ ret.done
    /\ Len(args.items) = 3 /\ Len(ret.value) = 2
    /\ args.items[1].s > args.items[2].s
    /\ args.items[1].s = args.items[3].s
    /\ \E x \in Places :
          ret.value[x[1]].e > args.items[ret.value[x[1]].ps[x[2]]].e

\* ---------------------------------------------------------------------
\* The read-modify-write of a bit write (C38).

\* Task t is inside write_holding for an entity whose write section has a
\* bit, before and after the step.
InBitWrite(t) ==
    /\ loc[t].op = "write" /\ loc'[t].op = "write"
    /\ WrittenEntity(entities, loc[t]).write.has_bit

\* C38: in a bit write, write_register is issued only by the step in which
\* the read of the same attempt returns a register, with the value made
\* from the register as it is then; a read that fails is followed by the
\* drop, with no write issued and the device untouched; and every attempt,
\* the retry too, issues its own read before any write.
C38_ReadModifyWrite ==
    [][\A t \in Writers :
          InBitWrite(t) =>
              LET w == WrittenEntity(entities, loc[t]).write
              IN  /\ (pc[t] # "w_write" /\ pc'[t] = "w_write") =>
                        /\ pc[t] = "w_read"
                        /\ Job(t, "read") \in inflight
                        /\ loc'[t].att = loc[t].att
                        /\ loc'[t].cur = BitWriteValue(device.holding[w.address], w.bit,
                                                       loc[t].val)
                        /\ Job(t, "write") \in inflight'
                  /\ (pc[t] = "w_read" /\ pc'[t] # "w_write") =>
                        /\ pc'[t] \in {"w_read", "drop"}
                        /\ loc'[t].att = loc[t].att
                        /\ Job(t, "write") \notin inflight'
                        /\ device' = device
                  /\ (pc[t] # "w_read" /\ pc'[t] = "w_read") =>
                        /\ Job(t, "read") \in inflight'
                        /\ Job(t, "read") \notin inflight
                  /\ loc'[t].att > loc[t].att =>
                        (pc[t] = "drop" /\ pc'[t] \in {"w_connect", "w_read", "idle"})
                  /\ (pc[t] = "w_connect" /\ pc'[t] # pc[t]) =>
                        pc'[t] \in {"w_read", "drop"}]_vars

\* The write of the second attempt is in flight after the read of the
\* first attempt had failed on an answer without a register.
C38_Witness ==
    \E t \in Writers :
        /\ pc[t] = "w_write" /\ loc[t].att = 1
        /\ loc[t].failure = "IndexError"
        /\ WrittenEntity(entities, loc[t]).write.has_bit
        /\ Job(t, "write") \in inflight

\* ---------------------------------------------------------------------
\* The keys of a snapshot (C39).

\* The keys of the items of the document that have a read section of a
\* supported register kind with an integer address.
ReadKeys ==
    {document.entries[i].key :
        i \in {j \in 1..Len(document.entries) :
                  /\ document.entries[j].is_dict
                  /\ document.entries[j].read.present
                  /\ document.entries[j].read.type
                        \in {"holding", "input", "coil", "discrete"}
                  /\ document.entries[j].read.int_address}}

\* The addresses of the given register kind that some read section of the
\* document covers.
ReadAddresses(kind) ==
    UNION {LET r == document.entries[i].read
           IN  IF document.entries[i].key \in ReadKeys /\ r.type = kind
               THEN r.address..(r.address
                                  + (IF kind \in {"holding", "input"}
                                        /\ r.data_type \in {"uint32", "int32", "float32"}
                                     THEN 1 ELSE 0))
               ELSE {} : i \in 1..Len(document.entries)}

\* C39: the snapshot a poll cycle returns after its connect succeeded has
\* exactly the keys of the entities with a read section of a supported
\* register kind and an integer address, each with a value or null; the
\* other entities (the write-only ones among them) have no key in it, and
\* every read of the cycle asks only for addresses of read sections.
C39_SnapshotKeys ==
    (ev.op = "refresh" /\ ev.outcome = "returned" /\ ~ev.l.connFailed) =>
        /\ data.set
        /\ {k \in AllKeys : data.m[k] # Absent} = ReadKeys
        /\ \A k \in ReadKeys : data.m[k].t \in {"null", "bool", "num"}
        /\ \A i \in 1..Len(document.entries) :
              ~document.entries[i].read.present
                  => data.m[document.entries[i].key] = Absent
        /\ \A j \in 1..Len(ev.l.reads) :
              LET r == ev.l.reads[j]
              IN  r.s..(r.s + r.n - 1)
                      \subseteq ReadAddresses(ReadPlan(entities)[r.ri].reg_type)

\* A cycle over a document with a write-only button, a sensor of an
\* unsupported kind and a sensor without an integer address has returned
\* four keys, one of them null.
C39_Witness ==
    /\ ev.op = "refresh" /\ ev.outcome = "returned" /\ ~ev.l.connFailed
    /\ \E i \in 1..Len(document.entries) :
          ~document.entries[i].read.present /\ document.entries[i].write.present
    /\ \E i \in 1..Len(document.entries) :
          document.entries[i].read.present /\ ~document.entries[i].read.int_address
    /\ \E i \in 1..Len(document.entries) : document.entries[i].read.type = "register"
    /\ Cardinality(ReadKeys) = 4
    /\ data.m["energy"] = Null /\ data.m["temp"].t = "num"
    /\ ev.l.reads # << >>

====
